---- MODULE Spec2Model ----
(***************************************************************************)
(* hall-pass: PreToolUse authorization hook.                               *)
(*                                                                         *)
(* Strings are modelled as sequences of atoms.  An atom is either one      *)
(* special character ("/", ".", "-", "~", "*", "=", ":", "+", ";", "\\")   *)
(* or a run of ordinary characters that contains no special character.     *)
(* So "/project/.env" is <<"/", "project", "/", ".", "env">> and           *)
(* startsWith("-"), includes("/"), split("/") are computed on the atoms.   *)
(***************************************************************************)
EXTENDS Integers, Sequences, FiniteSets, TLC

VARIABLES
    pc,            \* position of the hook script (hook.ts top-level code)
    payload,       \* what the host wrote to stdin
    userFile,      \* state of the user's config.toml
    shfmt,         \* what the shfmt subprocess does with the command
    toolName,      \* hook.ts:74
    toolInput,     \* hook.ts:75
    config,        \* hook.ts:91
    commandInfos,  \* hook.ts:155
    redirects,     \* hook.ts:161
    idx,           \* position of the per-command loop, hook.ts:192
    results,       \* results ctx.evaluate returned so far, hook.ts:193
    ran,           \* the checks that have run on the command
    stdout,        \* what the process wrote to stdout
    exitCode,      \* process exit code, -1 while running
    auditLog,      \* entries handed to audit.log
    pathIn,        \* input of a checkFilePath call: path, operation
    pathOut,       \* PathDecision returned by that call
    callIn,        \* an exported function called on its own: name, arguments
    callOut,       \* what that call returned
    dirCreated,    \* audit.ts:29
    auditDir,      \* whether the directory of config.audit.path exists
    auditFile,     \* the file at config.audit.path: whether it exists, its lines
    writers,       \* the asynchronous appends log() has started, audit.ts:37-50
    logged         \* number of log() calls made so far

vars == <<pc, payload, userFile, shfmt, toolName, toolInput, config,
          commandInfos, redirects, idx, results, ran, stdout, exitCode,
          auditLog, pathIn, pathOut, callIn, callOut,
          dirCreated, auditDir, auditFile, writers, logged>>

auditVars == <<dirCreated, auditDir, auditFile, writers, logged>>

hookVars == <<pc, payload, userFile, shfmt, toolName, toolInput, config,
              commandInfos, redirects, idx, results, ran, stdout, exitCode,
              auditLog>>

-----------------------------------------------------------------------------
(* Bounds *)

\* longest list of top-level statements in a sampled command
MaxStmts == 2

\* most statements in a sampled SQL string
MaxSqlStmts == 3

-----------------------------------------------------------------------------
(* String helpers (JavaScript String / Array methods on atom sequences) *)

Str(a) == <<a>>

StartsWith(s, p) == Len(s) >= Len(p) /\ SubSeq(s, 1, Len(p)) = p

Includes(s, a) == \E i \in 1..Len(s) : s[i] = a

Slice(s, n) == SubSeq(s, n + 1, Len(s))

IsIn(x, seq) == \E i \in 1..Len(seq) : seq[i] = x

RECURSIVE Split(_, _)
\* s.split(sep): the pieces between occurrences of the atom sep
Split(s, sep) ==
    IF ~Includes(s, sep) THEN <<s>>
    ELSE LET i == CHOOSE k \in 1..Len(s) :
                    s[k] = sep /\ \A j \in 1..(k - 1) : s[j] # sep
         IN  <<SubSeq(s, 1, i - 1)>> \o Split(SubSeq(s, i + 1, Len(s)), sep)

\* s.split(sep).pop()
SplitPop(s, sep) == LET parts == Split(s, sep) IN parts[Len(parts)]

RECURSIVE Flatten(_)
Flatten(ss) == IF ss = <<>> THEN <<>> ELSE Head(ss) \o Flatten(Tail(ss))

-----------------------------------------------------------------------------
(* Process environment *)

\* os.homedir(), as path segments
HomeDir == <<Str("home"), Str("u")>>

\* process.cwd(), as path segments
Cwd == <<Str("project")>>

-----------------------------------------------------------------------------
(* path.resolve and tilde expansion: config.ts:43-48, paths.ts:58 *)

Dot == Str(".")
DotDot == <<".", ".">>

RECURSIVE Normalize(_, _)
\* path.resolve's normalisation: "" and "." segments vanish, ".." pops
Normalize(segs, acc) ==
    IF segs = <<>> THEN acc
    ELSE LET h == Head(segs) IN
         IF h = <<>> \/ h = Dot THEN Normalize(Tail(segs), acc)
         ELSE IF h = DotDot
              THEN Normalize(Tail(segs),
                             IF acc = <<>> THEN acc ELSE SubSeq(acc, 1, Len(acc) - 1))
              ELSE Normalize(Tail(segs), Append(acc, h))

RECURSIVE JoinPath(_)
\* the absolute path string made of the segments
JoinPath(segs) ==
    IF segs = <<>> THEN <<>>
    ELSE <<"/">> \o Head(segs) \o JoinPath(Tail(segs))

\* path.resolve(base, p), base given as normalised segments
Resolve(base, p) ==
    LET segs == IF StartsWith(p, <<"/">>) THEN Normalize(Split(p, "/"), <<>>)
                ELSE Normalize(Split(p, "/"), base)
    IN  IF segs = <<>> THEN <<"/">> ELSE JoinPath(segs)

expandTilde(p) ==
    IF StartsWith(p, <<"~", "/">>) \/ p = <<"~">>
    THEN Resolve(HomeDir, Slice(p, 2))
    ELSE p

-----------------------------------------------------------------------------
(* Bun.Glob.match: "*" matches within one segment, "**" any run of segments *)

RECURSIVE MatchSeg(_, _)
MatchSeg(p, s) ==
    IF p = <<>> THEN s = <<>>
    ELSE IF Head(p) = "*"
         THEN MatchSeg(Tail(p), s) \/ (s # <<>> /\ MatchSeg(p, Tail(s)))
         ELSE s # <<>> /\ Head(p) = Head(s) /\ MatchSeg(Tail(p), Tail(s))

RECURSIVE MatchSegs(_, _)
MatchSegs(ps, ss) ==
    IF ps = <<>> THEN ss = <<>>
    ELSE IF Head(ps) = <<"*", "*">>
         THEN MatchSegs(Tail(ps), ss) \/ (ss # <<>> /\ MatchSegs(ps, Tail(ss)))
         ELSE ss # <<>> /\ MatchSeg(Head(ps), Head(ss))
                        /\ MatchSegs(Tail(ps), Tail(ss))

GlobMatch(pattern, str) == MatchSegs(Split(pattern, "/"), Split(str, "/"))

-----------------------------------------------------------------------------
(* config.ts *)

DEFAULT_PROTECTED_PATHS == <<
    <<"*", "*", "/", ".", "env">>,
    <<"*", "*", "/", ".", "env", ".", "*">>,
    <<"*", "*", "/", "credentials", "*">>,
    <<"*", "*", "/", "secret", "*">>,
    <<"~", "/", ".", "ssh", "/", "*", "*">>,
    <<"~", "/", ".", "aws", "/", "*", "*">>,
    <<"~", "/", ".", "gnupg", "/", "*", "*">> ,
    <<"*", "*", "/", "*", ".", "pem">>,
    <<"*", "*", "/", "*", "id_rsa", "*">> >>

DEFAULT_CONFIG ==
    [commands |-> [safe |-> <<>>, db_clients |-> <<>>],
     git      |-> [protected_branches |-> <<>>],
     paths    |-> [protected |-> DEFAULT_PROTECTED_PATHS,
                   read_only |-> <<>>, no_delete |-> <<>>],
     audit    |-> [enabled |-> FALSE]]

\* the sections a user's config.toml leaves out
NoUser ==
    [commands |-> [safe |-> <<>>, db_clients |-> <<>>],
     git      |-> [protected_branches |-> <<>>],
     paths    |-> [protected |-> <<>>, read_only |-> <<>>, no_delete |-> <<>>],
     audit    |-> [enabled |-> FALSE]]

MapSeq(Op(_), s) == [i \in 1..Len(s) |-> Op(s[i])]

expandConfigPaths(c) ==
    [c EXCEPT !.paths = [protected |-> MapSeq(expandTilde, c.paths.protected),
                         read_only |-> MapSeq(expandTilde, c.paths.read_only),
                         no_delete |-> MapSeq(expandTilde, c.paths.no_delete)]]

mergeConfig(defaults, user) ==
    [commands |-> [safe |-> defaults.commands.safe \o user.commands.safe,
                   db_clients |-> defaults.commands.db_clients \o user.commands.db_clients],
     git      |-> [protected_branches |->
                      defaults.git.protected_branches \o user.git.protected_branches],
     paths    |-> [protected |-> defaults.paths.protected \o user.paths.protected,
                   read_only |-> defaults.paths.read_only \o user.paths.read_only,
                   no_delete |-> defaults.paths.no_delete \o user.paths.no_delete],
     audit    |-> [enabled |-> user.audit.enabled]]

\* file: [state |-> "missing" | "malformed" | "ok", user |-> parsed TOML]
loadConfig(file) ==
    IF file.state = "ok"
    THEN expandConfigPaths(mergeConfig(DEFAULT_CONFIG, file.user))
    ELSE expandConfigPaths(DEFAULT_CONFIG)

-----------------------------------------------------------------------------
(* paths.ts *)

READ_COMMANDS ==
    {"cat", "head", "tail", "less", "more", "file", "stat", "wc", "strings",
     "diff", "md5sum", "sha256sum", "sha1sum", "xxd", "od"}

DELETE_COMMANDS == {"rm", "rmdir", "unlink"}

PATH_AWARE_COMMANDS ==
    {"cat", "head", "tail", "less", "more", "file", "stat", "wc", "strings",
     "diff", "md5sum", "sha256sum", "sha1sum", "xxd", "od",
     "cp", "mv", "mkdir", "touch", "tee", "ln", "install",
     "rm", "rmdir", "unlink",
     "chmod", "chown", "chgrp"}

\* a set of names has(name): name is a whole string, given by its atoms
Has(set, name) == Len(name) = 1 /\ name[1] \in set

isPathAwareCommand(name) == Has(PATH_AWARE_COMMANDS, name)

looksLikePath(arg) ==
    Includes(arg, "/") \/ StartsWith(arg, <<".">>) \/ StartsWith(arg, <<"~">>)

matchesPattern(filePath, pattern) ==
    LET resolved == Resolve(Cwd, expandTilde(filePath))
        expandedPattern == expandTilde(pattern)
    IN  GlobMatch(expandedPattern, resolved)

\* index of the first pattern of the list that matches, 0 when none does
FirstMatch(filePath, patterns) ==
    IF \E i \in 1..Len(patterns) : matchesPattern(filePath, patterns[i])
    THEN CHOOSE i \in 1..Len(patterns) :
            /\ matchesPattern(filePath, patterns[i])
            /\ \A j \in 1..(i - 1) : ~matchesPattern(filePath, patterns[j])
    ELSE 0

Denied(tier, pattern) == [allowed |-> FALSE, tier |-> tier, pattern |-> pattern]
Allowed == [allowed |-> TRUE, tier |-> "", pattern |-> <<>>]

\* the read_only tier forgetting deletions
ReadOnlyBlocksWriteOnly(operation) == operation = "write"

\* paths.ts:80, the operations the read_only tier blocks
ReadOnlyBlocks(operation) == operation = "write" \/ operation = "delete"

\* paths.ts:90, the operations the no_delete tier blocks
NoDeleteBlocks(operation) == operation = "delete"

checkFilePath(filePath, operation, cfg) ==
    LET p == FirstMatch(filePath, cfg.paths.protected)
        r == FirstMatch(filePath, cfg.paths.read_only)
        n == FirstMatch(filePath, cfg.paths.no_delete)
    IN  IF p # 0 THEN Denied("protected", cfg.paths.protected[p])
        ELSE IF ReadOnlyBlocks(operation) /\ r # 0
             THEN Denied("read-only", cfg.paths.read_only[r])
        ELSE IF NoDeleteBlocks(operation) /\ n # 0
             THEN Denied("no-delete", cfg.paths.no_delete[n])
        ELSE Allowed

getOperationType(commandName) ==
    IF Has(READ_COMMANDS, commandName) THEN "read"
    ELSE IF Has(DELETE_COMMANDS, commandName) THEN "delete"
    ELSE "write"

\* the arguments checkCommandPaths hands to checkFilePath, paths.ts:117-121
CheckedArgs(commandInfo) ==
    SelectSeq(Tail(commandInfo.args),
              LAMBDA arg : ~StartsWith(arg, <<"-">>) /\ looksLikePath(arg))

checkCommandPaths(commandInfo, cfg) ==
    LET operation == getOperationType(commandInfo.name)
        args == CheckedArgs(commandInfo)
        bad == {i \in 1..Len(args) : ~checkFilePath(args[i], operation, cfg).allowed}
    IN  IF bad = {} THEN Allowed
        ELSE checkFilePath(args[CHOOSE i \in bad : \A j \in bad : i <= j],
                           operation, cfg)

-----------------------------------------------------------------------------
(* safelist.ts *)

SAFE_COMMANDS ==
    {"gh",
     "bun", "bunx", "npm", "npx", "yarn", "pnpm", "deno", "tsc",
     "cargo", "go", "make", "cmake", "pip", "uv", "poetry",
     "lsof", "ps", "sleep", "pkill", "killall",
     "curl", "wget",
     "grep", "egrep", "fgrep", "rg", "sort", "uniq",
     "tr", "cut", "wc", "head", "tail", "tee", "jq",
     "ls", "cat", "cp", "mv", "mkdir", "touch", "diff",
     "file", "stat", "strings", "realpath", "basename", "dirname",
     "echo", "printf", "pwd", "which", "whoami", "test", "true", "false",
     "cd", "pushd", "popd", "export", "set", "unset", "read",
     "date",
     "shfmt",
     "sqlite3"}

DB_CLIENTS == {"psql", "mysql"}

DANGEROUS_ENV_VARS ==
    {"LD_PRELOAD", "LD_LIBRARY_PATH", "DYLD_INSERT_LIBRARIES",
     "DYLD_LIBRARY_PATH", "BASH_ENV", "ENV", "PROMPT_COMMAND"}

-----------------------------------------------------------------------------
(* wrappers.ts *)

\* the digits of a numeric argument are one atom each
Digits == {"0", "1", "2", "3", "4", "5", "6", "7", "8", "9"}

IsNum(a) == a \in Digits

AllDigits(s) == \A i \in 1..Len(s) : IsNum(s[i])

\* the flag skippers return an index into rest (0-based), or Null
Null == -1

\* rest[i] of JavaScript (0-based), <<>> standing for undefined
At(rest, i) == IF i + 1 <= Len(rest) THEN rest[i + 1] ELSE <<>>

SkipNohup(rest) == 0

SkipNice(rest) ==
    LET a == At(rest, 0)
        i == IF a = <<"-", "n">> \/ a = <<"-", "-", "adjustment">> THEN 2
             ELSE IF StartsWith(a, <<"-", "n">>) /\ Len(a) >= 3 /\ IsNum(a[3]) THEN 1
             ELSE IF StartsWith(a, <<"-", "-", "adjustment", "=">>) THEN 1
             ELSE IF Len(a) >= 2 /\ a[1] = "-" /\ AllDigits(Tail(a)) THEN 1
             ELSE 0
    IN  IF i < Len(rest) THEN i ELSE Null

RECURSIVE TimeoutFlags(_, _)
\* wrappers.ts:42-60, the index after timeout's own flags
TimeoutFlags(rest, i) ==
    IF i >= Len(rest) THEN i
    ELSE LET arg == At(rest, i) IN
         IF arg \in {<<"-", "s">>, <<"-", "-", "signal">>,
                     <<"-", "k">>, <<"-", "-", "kill", "-", "after">>}
         THEN TimeoutFlags(rest, i + 2)
         ELSE IF \/ StartsWith(arg, <<"-", "-", "signal", "=">>)
                 \/ StartsWith(arg, <<"-", "-", "kill", "-", "after", "=">>)
                 \/ StartsWith(arg, <<"-", "k", "=">>)
         THEN TimeoutFlags(rest, i + 1)
         ELSE IF arg \in {<<"-", "-", "preserve", "-", "status">>,
                          <<"-", "-", "foreground">>,
                          <<"-", "v">>, <<"-", "-", "verbose">>}
         THEN TimeoutFlags(rest, i + 1)
         ELSE i

\* a skipper that takes DURATION for the inner command
SkipTimeoutNoDuration(rest) ==
    LET f == TimeoutFlags(rest, 0)
    IN  IF f < Len(rest) THEN f ELSE Null

SkipTimeout(rest) ==
    LET f == TimeoutFlags(rest, 0)
        i == IF f < Len(rest) THEN f + 1 ELSE f
    IN  IF i < Len(rest) THEN i ELSE Null

TRANSPARENT_WRAPPERS == {"nohup", "nice", "timeout"}

Skipper(name, rest) ==
    IF name = Str("nohup") THEN SkipNohup(rest)
    ELSE IF name = Str("nice") THEN SkipNice(rest)
    ELSE SkipTimeout(rest)

\* unwrapping that loses the assignments of the wrapper
InnerAssignsDropped(cmdInfo) == <<>>

\* wrappers.ts:88, the assigns of the unwrapped invocation
InnerAssigns(cmdInfo) == cmdInfo.assigns

RECURSIVE unwrapCommand(_)
unwrapCommand(cmdInfo) ==
    IF ~Has(TRANSPARENT_WRAPPERS, cmdInfo.name) THEN cmdInfo
    ELSE LET rest == Tail(cmdInfo.args)
             innerStart == Skipper(cmdInfo.name, rest)
         IN  IF innerStart = Null \/ innerStart >= Len(rest) THEN cmdInfo
             ELSE LET innerArgs == Slice(rest, innerStart)
                  IN  unwrapCommand([name    |-> innerArgs[1],
                                     args    |-> innerArgs,
                                     assigns |-> InnerAssigns(cmdInfo)])

-----------------------------------------------------------------------------
(* feedback.ts *)

\* every entry of JSON_KEYWORDS contains "json" or "JSON"
JSON_KEYWORDS == {"json", "JSON"}

STRING_OP_KEYWORDS ==
    {".split(", ".strip(", ".replace(", ".join(", ".upper()", ".lower()",
     ".startswith(", ".endswith(", ".find(", ".count(",
     ".trim(", ".toUpperCase()", ".toLowerCase(",
     ".startsWith(", ".endsWith(", ".indexOf(", ".includes(",
     "re.sub(", "re.match(", "re.search(", "re.findall("}

\* args.indexOf(x) of JavaScript, -1 when absent
IndexOf(args, x) ==
    IF IsIn(x, args)
    THEN (CHOOSE i \in 1..Len(args) :
             args[i] = x /\ \A j \in 1..(i - 1) : args[j] # x) - 1
    ELSE -1

\* NoCode stands for null
NoCode == <<"<null>">>

getPythonInlineCode(cmd) ==
    IF cmd.name # Str("python3") /\ cmd.name # Str("python") THEN NoCode
    ELSE LET cIdx == IndexOf(cmd.args, <<"-", "c">>) IN
         IF cIdx = -1 \/ cIdx + 1 >= Len(cmd.args) THEN NoCode
         ELSE At(cmd.args, cIdx + 1)

NodeEvalFlags ==
    {<<"-", "e">>, <<"-", "-", "eval">>, <<"-", "p">>, <<"-", "-", "print">>}

getNodeInlineCode(cmd) ==
    IF cmd.name # Str("node") THEN NoCode
    ELSE LET hits == {i \in 0..(Len(cmd.args) - 1) :
                         At(cmd.args, i) \in NodeEvalFlags /\ i + 1 < Len(cmd.args)}
         IN  IF hits = {} THEN NoCode
             ELSE At(cmd.args, (CHOOSE i \in hits : \A j \in hits : i <= j) + 1)

getInlineCode(cmd) ==
    IF getPythonInlineCode(cmd) # NoCode THEN getPythonInlineCode(cmd)
    ELSE getNodeInlineCode(cmd)

\* a command the rules look into: getInlineCode gave a non-empty string
HasCode(cmd) == getInlineCode(cmd) # NoCode /\ getInlineCode(cmd) # <<>>

hasJsonKeyword(code) == \E kw \in JSON_KEYWORDS : Includes(code, kw)

hasStringOp(code) == \E kw \in STRING_OP_KEYWORDS : Includes(code, kw)

\* a suggestion text: the rule, whether it is the curl/wget wording, ${cmd.name}
NoSuggestion == [rule |-> "none", fetcher |-> FALSE, name |-> <<>>]

First(set) == CHOOSE i \in set : \A j \in set : i <= j

\* the rule bodies, over the commands looked into and the pipeline searched
\* for curl / wget
jsonParsingOn(cmds, pipeline) ==
    LET hits == {i \in 1..Len(cmds) :
                    HasCode(cmds[i]) /\ hasJsonKeyword(getInlineCode(cmds[i]))}
        hasFetcher == \E k \in 1..Len(pipeline) :
                          pipeline[k].name \in {Str("curl"), Str("wget")}
    IN  IF hits = {} THEN NoSuggestion
        ELSE IF hasFetcher THEN [rule |-> "json", fetcher |-> TRUE, name |-> <<>>]
        ELSE [rule |-> "json", fetcher |-> FALSE, name |-> cmds[First(hits)].name]

inlineCodeAsToolOn(cmds, pipeline) ==
    LET hits == {i \in 1..Len(cmds) :
                    /\ HasCode(cmds[i])
                    /\ ~hasJsonKeyword(getInlineCode(cmds[i]))
                    /\ hasStringOp(getInlineCode(cmds[i]))}
    IN  IF hits = {} THEN NoSuggestion
        ELSE [rule |-> "string-op", fetcher |-> FALSE, name |-> cmds[First(hits)].name]

jsonParsing(infos) == jsonParsingOn(infos, infos)

inlineCodeAsTool(infos) == inlineCodeAsToolOn(infos, infos)

\* the rules in the other order
checkFeedbackRulesStringFirst(infos) ==
    IF inlineCodeAsTool(infos) # NoSuggestion THEN inlineCodeAsTool(infos)
    ELSE jsonParsing(infos)

checkFeedbackRules(infos) ==
    IF jsonParsing(infos) # NoSuggestion THEN jsonParsing(infos)
    ELSE inlineCodeAsTool(infos)

\* feedback.ts's per-command entry point: the rules on one invocation, in the
\* context of the pipeline
checkCommandFeedback(cmd, pipelineCommands) ==
    IF jsonParsingOn(<<cmd>>, pipelineCommands) # NoSuggestion
    THEN jsonParsingOn(<<cmd>>, pipelineCommands)
    ELSE inlineCodeAsToolOn(<<cmd>>, pipelineCommands)

-----------------------------------------------------------------------------
(* git.ts *)

Names(set) == {Str(n) : n \in set}

SAFE_SUBCOMMANDS ==
    Names({"status", "log", "diff", "show", "branch", "tag", "remote",
           "describe", "reflog", "shortlog", "blame", "bisect", "cherry",
           "fsck", "whatchanged", "config",
           "add", "commit", "stash", "fetch", "pull", "merge",
           "revert", "notes", "worktree",
           "checkout", "switch", "restore",
           "gc", "prune", "repack"})
    \cup {<<"rev", "-", "parse">>, <<"rev", "-", "list">>, <<"ls", "-", "files">>,
          <<"ls", "-", "tree">>, <<"cat", "-", "file">>, <<"name", "-", "rev">>,
          <<"count", "-", "objects">>, <<"verify", "-", "pack">>,
          <<"cherry", "-", "pick">>}

BRANCH_GATED_SUBCOMMANDS == Names({"push", "rebase"})

PROTECTED_BRANCHES == Names({"main", "master", "staging", "production", "prod"})

ALWAYS_DESTRUCTIVE == Names({"reset", "clean"})

HasDestructiveFlags(subcommand) ==
    subcommand \in Names({"push", "reset", "checkout", "restore", "clean",
                          "branch", "stash"})

DESTRUCTIVE_FLAGS(subcommand) ==
    IF subcommand = Str("push")
    THEN {<<"-", "-", "force">>, <<"-", "f">>,
          <<"-", "-", "force", "-", "with", "-", "lease">>,
          <<"-", "-", "force", "-", "if", "-", "includes">>}
    ELSE IF subcommand = Str("reset") THEN {<<"-", "-", "hard">>}
    ELSE IF subcommand = Str("checkout") THEN {<<".">>}
    ELSE IF subcommand = Str("restore") THEN {<<".">>}
    ELSE IF subcommand = Str("clean")
    THEN {<<"-", "f">>, <<"-", "fd">>, <<"-", "fx">>, <<"-", "fxd">>,
          <<"-", "fdx">>, <<"-", "ff">>}
    ELSE IF subcommand = Str("branch")
    THEN {<<"-", "D">>, <<"-", "-", "force">>, <<"-", "d">>}
    ELSE IF subcommand = Str("stash") THEN {Str("drop"), Str("clear")}
    ELSE {}

RECURSIVE SkipGitFlags(_)
\* git.ts:78-88, the arguments left once the git-level flags are shifted off
SkipGitFlags(remaining) ==
    IF remaining = <<>> THEN remaining
    ELSE LET arg == Head(remaining) IN
         IF arg \in {<<"-", "C">>, <<"-", "c">>, <<"-", "-", "git", "-", "dir">>,
                     <<"-", "-", "work", "-", "tree">>}
         THEN SkipGitFlags(Slice(remaining, 2))
         ELSE IF StartsWith(arg, <<"-">>) THEN SkipGitFlags(Tail(remaining))
         ELSE remaining

parseGitCommand(args) ==
    LET remaining == SkipGitFlags(args)
        after == IF remaining = <<>> THEN <<>> ELSE Tail(remaining)
    IN  [subcommand |-> IF remaining = <<>> THEN <<>> ELSE Head(remaining),
         flags |-> SelectSeq(after, LAMBDA a : StartsWith(a, <<"-">>)),
         rest  |-> SelectSeq(after, LAMBDA a : ~StartsWith(a, <<"-">>))]

\* a target compared whole, refspecs not split
PushTargetWhole(arg) == arg

\* git.ts:140
PushTarget(arg) == IF Includes(arg, ":") THEN SplitPop(arg, ":") ELSE arg

\* git.ts:113-152 on the argument list of the invocation
isGitCommandSafe(fullArgs) ==
    LET args == IF fullArgs # <<>> /\ Head(fullArgs) = Str("git")
                THEN Tail(fullArgs) ELSE fullArgs
        g == parseGitCommand(args)
    IN  IF g.subcommand = <<>> THEN TRUE
        ELSE IF g.subcommand \in ALWAYS_DESTRUCTIVE THEN FALSE
        ELSE IF /\ HasDestructiveFlags(g.subcommand)
                /\ \/ \E i \in 1..Len(g.flags) :
                         g.flags[i] \in DESTRUCTIVE_FLAGS(g.subcommand)
                   \/ \E i \in 1..Len(g.rest) :
                         g.rest[i] \in DESTRUCTIVE_FLAGS(g.subcommand)
        THEN FALSE
        ELSE IF g.subcommand \in BRANCH_GATED_SUBCOMMANDS
        THEN ~\E i \in 1..Len(g.rest) : PushTarget(g.rest[i]) \in PROTECTED_BRANCHES
        ELSE g.subcommand \in SAFE_SUBCOMMANDS

-----------------------------------------------------------------------------
(* sql.ts, psql.ts *)

READ_ONLY_TYPES == {"select", "with", "show", "values"}

\* NoSql stands for null
NoSql == <<"<null>">>

SqliteValueFlags ==
    {<<"-", "cmd">>, <<"-", "separator">>, <<"-", "newline">>}

RECURSIVE SqlitePositional(_)
\* sql.ts:51-61
SqlitePositional(args) ==
    IF args = <<>> THEN <<>>
    ELSE IF Head(args) \in SqliteValueFlags THEN SqlitePositional(Slice(args, 2))
    ELSE IF StartsWith(Head(args), <<"-">>) THEN SqlitePositional(Tail(args))
    ELSE <<Head(args)>> \o SqlitePositional(Tail(args))

SQL_FLAGS(clientName) ==
    IF clientName = Str("psql") THEN {<<"-", "c">>, <<"-", "-", "command">>}
    ELSE IF clientName = Str("mysql") THEN {<<"-", "e">>, <<"-", "-", "execute">>}
    ELSE {}

RECURSIVE FlagSql(_, _)
\* sql.ts:68-80
FlagSql(flags, args) ==
    IF args = <<>> THEN NoSql
    ELSE LET arg == Head(args)
             eq == {f \in flags : StartsWith(arg, f \o <<"=">>)}
         IN  IF eq # {}
             THEN Slice(arg, Len(CHOOSE f \in eq : TRUE) + 1)
             ELSE IF arg \in flags /\ Len(args) >= 2 THEN args[2]
             ELSE FlagSql(flags, Tail(args))

extractSqlFromArgs(clientName, args) ==
    IF clientName = Str("sqlite3")
    THEN LET positional == SqlitePositional(Tail(args))
         IN  IF Len(positional) >= 2 THEN positional[2] ELSE NoSql
    ELSE FlagSql(SQL_FLAGS(clientName), Tail(args))

RECURSIVE Trim(_)
Trim(s) ==
    IF s # <<>> /\ Head(s) = " " THEN Trim(Tail(s))
    ELSE IF s # <<>> /\ s[Len(s)] = " " THEN Trim(SubSeq(s, 1, Len(s) - 1))
    ELSE s

SAFE_PSQL_META_COMMANDS ==
    {"d", "dt", "di", "ds", "da", "dm", "dv", "dE", "dn", "df", "du", "dT",
     "dp", "dD", "dF", "dx", "dy", "dg", "dO", "db", "dc", "dC", "dA", "dL",
     "do", "des", "det", "dew", "dl",
     "l", "conninfo", "encoding", "timing",
     "pset", "x", "a", "H",
     "echo", "qecho", "s", "sf", "sv", "ef", "ev",
     "copyright", "errverbose", "z", "g",
     "if", "elif", "else", "endif"}

\* the words pgsql-ast-parser takes as the start of a statement, and the
\* statement type it gives
SqlKeywords ==
    {"select", "with", "show", "values", "insert", "update", "delete",
     "drop", "create", "alter", "truncate"}

Lower(w) ==
    IF w \in {"SELECT", "select"} THEN "select"
    ELSE IF w \in {"WITH", "with"} THEN "with"
    ELSE IF w \in {"SHOW", "show"} THEN "show"
    ELSE IF w \in {"VALUES", "values"} THEN "values"
    ELSE IF w \in {"INSERT", "insert"} THEN "insert"
    ELSE IF w \in {"UPDATE", "update"} THEN "update"
    ELSE IF w \in {"DELETE", "delete"} THEN "delete"
    ELSE IF w \in {"DROP", "drop"} THEN "drop"
    ELSE IF w \in {"CREATE", "create"} THEN "create"
    ELSE IF w \in {"ALTER", "alter"} THEN "alter"
    ELSE IF w \in {"TRUNCATE", "truncate"} THEN "truncate"
    ELSE IF w \in {"PRAGMA", "Pragma", "pragma"} THEN "pragma"
    ELSE w

\* the letters that open a psql meta-command: /^([a-zA-Z]+)/
IsLetters(a) == a \notin Digits \cup {" ", "!", "+", "\\", ";", ".", "-", "="}

isPsqlMetaCommandSafe(input) ==
    LET trimmed == Trim(input)
        rest == Slice(trimmed, 1)
    IN  /\ StartsWith(trimmed, <<"\\">>)
        /\ rest # <<>>
        /\ IsLetters(rest[1])
        /\ rest[1] \in SAFE_PSQL_META_COMMANDS

\* pgsql-ast-parser's parse: the statement types, or a syntax error
ParseSql(sql) ==
    LET stmts == SelectSeq(MapSeq(Trim, Split(sql, ";")), LAMBDA t : t # <<>>)
    IN  [ok    |-> \A i \in 1..Len(stmts) : Lower(stmts[i][1]) \in SqlKeywords,
         types |-> [i \in 1..Len(stmts) |-> Lower(stmts[i][1])]]

\* read-only as soon as one statement is
isSqlReadOnlySome(sql) ==
    LET trimmed == Trim(sql) IN
    IF trimmed = <<>> THEN TRUE
    ELSE IF StartsWith(trimmed, <<"\\">>) THEN isPsqlMetaCommandSafe(trimmed)
    ELSE LET parsed == ParseSql(trimmed)
         IN  /\ parsed.ok
             /\ \E i \in 1..Len(parsed.types) : parsed.types[i] \in READ_ONLY_TYPES

isSqlReadOnly(sql) ==
    LET trimmed == Trim(sql) IN
    IF trimmed = <<>> THEN TRUE
    ELSE IF StartsWith(trimmed, <<"\\">>) THEN isPsqlMetaCommandSafe(trimmed)
    ELSE LET parsed == ParseSql(trimmed)
         IN  /\ parsed.ok
             /\ \A i \in 1..Len(parsed.types) : parsed.types[i] \in READ_ONLY_TYPES

-----------------------------------------------------------------------------
(* sqlite.ts: checkers that sql.ts does not import *)

SAFE_SQLITE_DOT_COMMANDS ==
    {"schema", "tables", "databases", "indexes", "indices", "fullschema",
     "headers", "mode", "separator", "width", "nullvalue", "print",
     "show", "dbinfo", "dbconfig", "stats", "version", "help", "sha3sum",
     "explain", "eqp", "timer", "dump", "lint"}

isSqliteDotCommandSafe(input) ==
    LET trimmed == Trim(input)
        rest == Slice(trimmed, 1)
    IN  /\ StartsWith(trimmed, <<".">>)
        /\ rest # <<>>
        /\ IsLetters(rest[1])
        /\ Lower(rest[1]) \in SAFE_SQLITE_DOT_COMMANDS

RECURSIVE StripSemicolons(_)
\* replace(/;+\s*$/, "") on a trimmed string
StripSemicolons(s) ==
    IF s # <<>> /\ s[Len(s)] = ";" THEN StripSemicolons(SubSeq(s, 1, Len(s) - 1))
    ELSE s

isSqlitePragmaReadOnly(input) ==
    LET cleaned == StripSemicolons(Trim(input))
    IN  /\ Len(cleaned) >= 2
        /\ Lower(cleaned[1]) = "pragma"
        /\ cleaned[2] = " "
        /\ ~Includes(cleaned, "=")

-----------------------------------------------------------------------------
(* inspectors.ts *)

\* an EvalResult; decision "none" is a returned value that has no decision
\* field, "throw" an exception thrown out of the evaluator
Result(decision, reason) ==
    [decision |-> decision, reason |-> reason, suggestion |-> NoSuggestion]

Feedback(suggestion) ==
    [decision |-> "feedback", reason |-> "", suggestion |-> suggestion]

allow(reason) == Result("allow", reason)
prompt(reason) == Result("prompt", reason)

SubCmd(subArgs) == [name |-> subArgs[1], args |-> subArgs, assigns |-> <<>>]

RECURSIVE evaluateBashCommand(_, _)

inspectGit(cmdInfo, ctx) ==
    IF isGitCommandSafe(cmdInfo.args) THEN allow("git: safe") ELSE prompt("git: unsafe")

\* no flag of xargs takes a value
XargsValueFlagsNone == {}

XargsValueFlags ==
    {<<"-", "I">>, <<"-", "L">>, <<"-", "n">>, <<"-", "P">>,
     <<"-", "d">>, <<"-", "s">>, <<"-", "a">>, <<"-", "R">>}

RECURSIVE XargsSubStart(_, _)
\* the index (0-based) where the sub-command starts, Null when there is none
XargsSubStart(args, i) ==
    IF i >= Len(args) THEN Null
    ELSE IF At(args, i) \in XargsValueFlags THEN XargsSubStart(args, i + 2)
    ELSE IF StartsWith(At(args, i), <<"-">>) THEN XargsSubStart(args, i + 1)
    ELSE i

inspectXargs(cmdInfo, ctx) ==
    LET i == XargsSubStart(cmdInfo.args, 1) IN
    IF i = Null THEN allow("xargs: defaults to echo")
    ELSE evaluateBashCommand(SubCmd(Slice(cmdInfo.args, i)), ctx)

inspectSource(cmdInfo, ctx) == prompt("source: executes arbitrary scripts")

\* find.ts -exec clause that starts after index i: the index of its
\* terminator (Null when it has none) and its arguments
ExecEnd(args, i) ==
    LET ends == {j \in (i + 1)..(Len(args) - 1) :
                    At(args, j) = <<";">> \/ At(args, j) = <<"+">>}
    IN  IF ends = {} THEN Null ELSE First(ends)

ExecArgs(args, i) ==
    IF ExecEnd(args, i) = Null THEN Slice(args, i + 1)
    ELSE SubSeq(args, i + 2, ExecEnd(args, i))

RECURSIVE FindScan(_, _, _)
FindScan(args, i, ctx) ==
    IF i >= Len(args) THEN allow("find: safe")
    ELSE LET arg == At(args, i) IN
         IF arg = <<"-", "delete">> \/ arg = <<"-", "ok">> THEN prompt("find: -delete/-ok")
         ELSE IF arg = <<"-", "exec">> \/ arg = <<"-", "execdir">>
         THEN LET subArgs == ExecArgs(args, i)
                  next == IF ExecEnd(args, i) = Null THEN i + 1
                          ELSE ExecEnd(args, i) + 1
              IN  IF subArgs = <<>> THEN prompt("find: empty -exec")
                  ELSE LET result == evaluateBashCommand(SubCmd(subArgs), ctx)
                       IN  IF result.decision # "allow" THEN result
                           ELSE FindScan(args, next, ctx)
         ELSE FindScan(args, i + 1, ctx)

inspectFind(cmdInfo, ctx) == FindScan(cmdInfo.args, 0, ctx)

inspectSed(cmdInfo, ctx) ==
    IF \E i \in 1..Len(cmdInfo.args) : StartsWith(cmdInfo.args[i], <<"-", "i">>)
    THEN prompt("sed: -i in-place")
    ELSE allow("sed: read-only")

inspectAwk(cmdInfo, ctx) ==
    IF \E i \in 1..Len(cmdInfo.args) :
          /\ ~StartsWith(cmdInfo.args[i], <<"-">>)
          /\ \E kw \in {"system(", "system (", "| getline", "|getline"} :
                Includes(cmdInfo.args[i], kw)
    THEN prompt("awk: system()/getline")
    ELSE allow("awk: safe")

\* /^-[A-Z]+$/ : the signal names written in capitals
UpperWords == {"KILL", "TERM", "HUP", "INT", "STOP", "USR"}

\* no argument is taken for a signal
IsSignalArgNever(arg) == FALSE

IsSignalArg(arg) ==
    /\ Len(arg) >= 2
    /\ arg[1] = "-"
    /\ \/ AllDigits(Tail(arg))
       \/ (Len(arg) = 2 /\ arg[2] \in UpperWords)

RECURSIVE KillScan(_, _, _)
KillScan(args, i, signalSeen) ==
    IF i >= Len(args) THEN allow("kill: safe")
    ELSE LET arg == At(args, i) IN
         IF arg = <<"-", "s">> THEN KillScan(args, i + 2, TRUE)
         ELSE IF arg = <<"-", "l">> \/ arg = <<"-", "-", "list">>
         THEN KillScan(args, i + 1, signalSeen)
         ELSE IF ~signalSeen /\ IsSignalArg(arg) THEN KillScan(args, i + 1, TRUE)
         ELSE IF arg = <<"1">> \/ arg = <<"-", "1">> THEN prompt("kill: dangerous PID")
         ELSE KillScan(args, i + 1, signalSeen)

inspectKill(cmdInfo, ctx) == KillScan(cmdInfo.args, 1, FALSE)

DigitVal(d) ==
    CASE d = "0" -> 0 [] d = "1" -> 1 [] d = "2" -> 2 [] d = "3" -> 3
      [] d = "4" -> 4 [] d = "5" -> 5 [] d = "6" -> 6 [] d = "7" -> 7
      [] d = "8" -> 8 [] d = "9" -> 9

\* the verdict of one chmod argument: "" when it is harmless
ChmodArg(arg) ==
    LET numeric == Len(arg) \in {3, 4} /\ AllDigits(arg)
        mode == IF Len(arg) = 4 THEN arg ELSE <<"0">> \o arg
    IN  IF StartsWith(arg, <<"-">>) THEN ""
        ELSE IF numeric /\ DigitVal(mode[1]) > 0 THEN "chmod: setuid/setgid/sticky"
        ELSE IF numeric /\ DigitVal(mode[4]) >= 6 THEN "chmod: world-writable"
        ELSE IF \E i \in 1..(Len(arg) - 1) : arg[i] = "+" /\ arg[i + 1] = "s"
        THEN "chmod: setuid/setgid"
        ELSE IF \E i \in 1..(Len(arg) - 2) :
                   arg[i] \in {"o", "a"} /\ arg[i + 1] = "+" /\ arg[i + 2] = "w"
        THEN "chmod: world-writable"
        ELSE IF arg = <<"7", "7", "7">> \/ arg = <<"6", "6", "6">>
        THEN "chmod: unsafe mode"
        ELSE ""

inspectChmod(cmdInfo, ctx) ==
    LET bad == {i \in 2..Len(cmdInfo.args) : ChmodArg(cmdInfo.args[i]) # ""}
    IN  IF bad = {} THEN allow("chmod: safe")
        ELSE prompt(ChmodArg(cmdInfo.args[First(bad)]))

DockerSafeSubcmds ==
    Names({"ps", "images", "logs", "inspect", "stats", "top",
           "version", "info", "network", "volume", "system",
           "build", "pull", "tag", "login", "logout",
           "compose", "container", "image"})

\* inspectors.ts: the value of a -v / --volume argument, <<>> when undefined
DockerVolume(args, arg) ==
    IF Includes(arg, "=")
    THEN (IF Len(Split(arg, "=")) >= 2 THEN Split(arg, "=")[2] ELSE <<>>)
    ELSE At(args, IndexOf(args, arg) + 1)

DockerRunArg(args, arg) ==
    IF arg = <<"-", "-", "privileged">> THEN "docker: --privileged"
    ELSE IF arg \in {<<"-", "-", "pid", "=", "host">>, <<"-", "-", "net", "=", "host">>,
                     <<"-", "-", "network", "=", "host">>}
    THEN "docker: host namespace"
    ELSE IF /\ StartsWith(arg, <<"-", "v">>) \/ StartsWith(arg, <<"-", "-", "volume">>)
            /\ StartsWith(DockerVolume(args, arg), <<"/", ":", "/">>)
    THEN "docker: root volume mount"
    ELSE ""

inspectDocker(cmdInfo, ctx) ==
    LET args == cmdInfo.args IN
    IF Len(args) < 2 THEN allow("docker: no subcommand")
    ELSE IF args[2] \in DockerSafeSubcmds THEN allow("docker: subcommand")
    ELSE IF args[2] \in Names({"run", "exec"})
    THEN LET bad == {i \in 1..Len(args) : DockerRunArg(args, args[i]) # ""}
         IN  IF bad = {} THEN allow("docker: subcommand")
             ELSE prompt(DockerRunArg(args, args[First(bad)]))
    ELSE IF args[2] \in Names({"stop", "rm", "rmi", "restart"})
    THEN allow("docker: subcommand")
    ELSE prompt("docker: unknown subcommand")

inspectNode(cmdInfo, ctx) ==
    IF \E i \in 1..Len(cmdInfo.args) : cmdInfo.args[i] \in NodeEvalFlags
    THEN prompt("node: inline code")
    ELSE allow("node: script runner")

inspectPython(cmdInfo, ctx) ==
    IF IsIn(<<"-", "c">>, cmdInfo.args) THEN prompt("python: inline code")
    ELSE allow("python: script runner")

\* the keys of the INSPECTORS object literal
InspectorNames ==
    {"git", "xargs", "source", "find", "sed", "awk", "kill", "chmod",
     "docker", "node", "python", "python3"}

\* INSPECTORS is a plain object: INSPECTORS[name] also finds what it inherits
\* from Object.prototype.  Called as inspector(cmdInfo, ctx), constructor
\* returns cmdInfo and toString returns a string, neither with a decision
\* field; the others throw a TypeError.
PrototypeReturning == {"constructor", "toString"}

PrototypeThrowing ==
    {"valueOf", "hasOwnProperty", "isPrototypeOf", "propertyIsEnumerable",
     "toLocaleString", "__proto__", "__defineGetter__", "__defineSetter__",
     "__lookupGetter__", "__lookupSetter__"}

\* INSPECTORS[name] is truthy
HasInspector(name) ==
    Has(InspectorNames \cup PrototypeReturning \cup PrototypeThrowing, name)

RunInspector(cmdInfo, ctx) ==
    LET n == cmdInfo.name[1] IN
    CASE n = "git"    -> inspectGit(cmdInfo, ctx)
      [] n = "xargs"  -> inspectXargs(cmdInfo, ctx)
      [] n = "source" -> inspectSource(cmdInfo, ctx)
      [] n = "find"   -> inspectFind(cmdInfo, ctx)
      [] n = "sed"    -> inspectSed(cmdInfo, ctx)
      [] n = "awk"    -> inspectAwk(cmdInfo, ctx)
      [] n = "kill"   -> inspectKill(cmdInfo, ctx)
      [] n = "chmod"  -> inspectChmod(cmdInfo, ctx)
      [] n = "docker" -> inspectDocker(cmdInfo, ctx)
      [] n = "node"   -> inspectNode(cmdInfo, ctx)
      [] n \in {"python", "python3"} -> inspectPython(cmdInfo, ctx)
      [] n \in PrototypeReturning -> Result("none", "")
      [] OTHER -> Result("throw", "TypeError")

-----------------------------------------------------------------------------
(* evaluate.ts *)

SeqToSet(seq) == {seq[i] : i \in 1..Len(seq)}

createEvalContext(cfg, pipelineCommands) ==
    [config |-> cfg,
     configSafe |-> SeqToSet(cfg.commands.safe),
     protectedBranches |-> SeqToSet(cfg.git.protected_branches),
     dbClients |-> Names(DB_CLIENTS) \cup SeqToSet(cfg.commands.db_clients),
     pipelineCommands |-> pipelineCommands]

dbClientInspect(cmdInfo) ==
    LET sql == extractSqlFromArgs(cmdInfo.name, cmdInfo.args) IN
    IF sql # NoSql /\ sql # <<>> /\ isSqlReadOnly(sql)
    THEN allow("db read-only")
    ELSE prompt("db client")

\* evaluate.ts step 2
HasDangerousEnv(cmdInfo) ==
    \E i \in 1..Len(cmdInfo.assigns) : Has(DANGEROUS_ENV_VARS, cmdInfo.assigns[i].name)

\* evaluate.ts step 5
IsSafeCommand(name, ctx) == Has(SAFE_COMMANDS, name) \/ name \in ctx.configSafe

\* evaluate.ts step 7
UnknownCommand(name) == prompt("not approved")

evaluateBashCommand(rawCmdInfo, ctx) ==
    LET cmdInfo == unwrapCommand(rawCmdInfo)
        name == cmdInfo.name
        feedback == checkCommandFeedback(cmdInfo, ctx.pipelineCommands)
    IN  IF HasDangerousEnv(cmdInfo) THEN prompt("dangerous env")
        ELSE IF feedback # NoSuggestion THEN Feedback(feedback)
        ELSE IF isPathAwareCommand(name) /\ ~checkCommandPaths(cmdInfo, ctx.config).allowed
        THEN prompt("path-blocked")
        ELSE IF IsSafeCommand(name, ctx) THEN allow("safe")
        ELSE IF HasInspector(name) THEN RunInspector(cmdInfo, ctx)
        ELSE IF name \in ctx.dbClients THEN dbClientInspect(cmdInfo)
        ELSE UnknownCommand(name)

-----------------------------------------------------------------------------
(* shfmt --tojson syntax tree.  A node is a record                          *)
(*   [Type, Assigns, Args, Redirs, Kids]                                     *)
(* Kids being the child nodes other than words (Stmt.Cmd, File.Stmts,        *)
(* BinaryCmd.X and .Y, ...); the fields come in the order of the JSON.       *)
(* A word is [Parts]; a part is [Type, Value, Parts, Stmts].                 *)

\* stands for a field that is undefined
Undefined == <<"<undefined>">>

Part(type, value, parts, stmts) ==
    [Type |-> type, Value |-> value, Parts |-> parts, Stmts |-> stmts]

Lit(v) == Part("Lit", v, <<>>, <<>>)
SglQuoted(v) == Part("SglQuoted", v, <<>>, <<>>)
DblQuoted(parts) == Part("DblQuoted", Undefined, parts, <<>>)
ParamExp == Part("ParamExp", Undefined, <<>>, <<>>)
CmdSubst(stmts) == Part("CmdSubst", Undefined, <<>>, stmts)

Word(parts) == [Parts |-> parts]
W(v) == Word(<<Lit(v)>>)

Node(type, assigns, args, redirs, kids) ==
    [Type |-> type, Assigns |-> assigns, Args |-> args, Redirs |-> redirs,
     Kids |-> kids]

CallExpr(assigns, args) == Node("CallExpr", assigns, args, <<>>, <<>>)
Stmt(cmd, redirs) == Node("Stmt", <<>>, <<>>, redirs, <<cmd>>)
BinaryCmd(x, y) == Node("BinaryCmd", <<>>, <<>>, <<>>, <<x, y>>)
File(stmts) == Node("File", <<>>, <<>>, <<>>, stmts)

Assign(name, value) == [Name |-> name, Value |-> value]
Redirect(op, word) == [Op |-> op, Word |-> word]

-----------------------------------------------------------------------------
(* parser.ts *)

\* the literal text of the parts that carry a Value
RECURSIVE ValueOfParts(_)
ValueOfParts(parts) ==
    IF parts = <<>> THEN <<>>
    ELSE (IF Head(parts).Value # Undefined THEN Head(parts).Value ELSE <<>>)
         \o ValueOfParts(Tail(parts))

RECURSIVE WordValue(_)
\* parser.ts:143-156, the string extractWordValue builds
WordValue(parts) ==
    IF parts = <<>> THEN <<>>
    ELSE LET part == Head(parts)
             piece == IF part.Value # Undefined THEN part.Value
                      ELSE IF part.Type \in {"DblQuoted", "SglQuoted"}
                           THEN ValueOfParts(part.Parts)
                           ELSE <<>>
         IN  piece \o WordValue(Tail(parts))

\* NoWord stands for null
NoWord == <<"<null>">>

extractWordValue(word) ==
    IF WordValue(word.Parts) = <<>> THEN NoWord ELSE WordValue(word.Parts)

extractAssigns(node) ==
    LET named == SelectSeq(node.Assigns, LAMBDA a : a.Name # <<>>)
    IN  [i \in 1..Len(named) |->
            [name  |-> named[i].Name,
             value |-> IF extractWordValue(named[i].Value) = NoWord THEN <<>>
                       ELSE extractWordValue(named[i].Value)]]

\* parser.ts:50, the words of a call that have a literal value
CallArgs(node) ==
    SelectSeq(MapSeq(extractWordValue, node.Args), LAMBDA v : v # NoWord)

\* parser.ts:49-59, the invocation a node contributes itself
OwnCommands(node) ==
    IF node.Type = "CallExpr" /\ Len(node.Args) > 0 /\ Len(CallArgs(node)) > 0
    THEN LET args == CallArgs(node)
             name == SplitPop(args[1], "/")
         IN  <<[name |-> name, args |-> <<name>> \o Tail(args),
                assigns |-> extractAssigns(node)]>>
    ELSE <<>>

RECURSIVE PartNodes(_)
\* the statements nested in the parts of a word
PartNodes(parts) ==
    IF parts = <<>> THEN <<>>
    ELSE PartNodes(Head(parts).Parts) \o Head(parts).Stmts \o PartNodes(Tail(parts))

\* the nodes below a node, in the order Object.values yields them
ChildNodes(node) ==
    Flatten([i \in 1..Len(node.Assigns) |-> PartNodes(node.Assigns[i].Value.Parts)])
    \o Flatten([i \in 1..Len(node.Args) |-> PartNodes(node.Args[i].Parts)])
    \o node.Kids
    \o Flatten([i \in 1..Len(node.Redirs) |-> PartNodes(node.Redirs[i].Word.Parts)])

RECURSIVE extractCommandInfos(_)
extractCommandInfos(node) ==
    LET kids == ChildNodes(node) IN
    OwnCommands(node)
    \o Flatten([i \in 1..Len(kids) |-> extractCommandInfos(kids[i])])

\* the write operators without >>
WriteOpsWithoutAppend == {54, 55, 62, 63}

\* parser.ts:92-95, Op values in shfmt
WriteOps == {54, 55, 56, 62, 63}

OwnRedirects(node) ==
    LET withPath == SelectSeq(node.Redirs,
                              LAMBDA r : extractWordValue(r.Word) # NoWord)
    IN  [i \in 1..Len(withPath) |->
            [path |-> extractWordValue(withPath[i].Word),
             op   |-> IF withPath[i].Op \in WriteOps THEN "write" ELSE "read"]]

RECURSIVE extractRedirects(_)
extractRedirects(node) ==
    LET kids == ChildNodes(node) IN
    OwnRedirects(node)
    \o Flatten([i \in 1..Len(kids) |-> extractRedirects(kids[i])])

-----------------------------------------------------------------------------
(* Sampled inputs *)

\* a statement that is a plain call of literal words
Simple(words) == Stmt(CallExpr(<<>>, MapSeq(W, words)), <<>>)

P_env == <<".", "env">>
P_credentials == <<"credentials", ".", "json">>
P_tmp == <<"/", "tmp", "/", "x">>
P_sshKey == <<"~", "/", ".", "ssh", "/", "id_rsa">>
P_out == <<"out", ".", "txt">>
P_roLog == <<"ro", "/", "log">>
FlagC == <<"-", "c">>
JsonCode == <<"import ", "json">>
SplitCode == <<"x", ".split(", ")">>
Python3 == Str("python3")

S_ls == Simple(<<Str("ls")>>)
S_catEnv == Simple(<<Str("cat"), P_env>>)
S_catCredentials == Simple(<<Str("cat"), P_credentials>>)
S_catSshKey == Simple(<<Str("cat"), P_sshKey>>)
S_rm == Simple(<<Str("rm"), P_tmp>>)
S_unknown == Simple(<<<<"some", "-", "unknown", "-", "command">>, <<"-", "-", "flag">>>>)
S_curl == Simple(<<Str("curl"), Str("url")>>)
S_mytool == Simple(<<Str("mytool")>>)
S_gitStatus == Simple(<<Str("git"), Str("status")>>)
S_nohupRm == Simple(<<Str("nohup"), Str("rm"), P_tmp>>)
S_constructor == Simple(<<Str("constructor")>>)
S_valueOf == Simple(<<Str("valueOf")>>)
S_findToString ==
    Simple(<<Str("find"), Dot, <<"-", "exec">>, Str("toString"), <<";">>>>)

\* LD_PRELOAD=evil.so ls
S_preload ==
    Stmt(CallExpr(<<Assign(Str("LD_PRELOAD"), W(<<"evil", ".", "so">>))>>,
                  <<W(Str("ls"))>>), <<>>)

\* BASH_ENV=evil.so nohup some-unknown-command
S_preloadNohup ==
    Stmt(CallExpr(<<Assign(Str("BASH_ENV"), W(<<"evil", ".", "so">>))>>,
                  <<W(Str("nohup")), W(<<"some", "-", "unknown", "-", "command">>)>>),
         <<>>)

\* FOO=bar
S_assign == Stmt(CallExpr(<<Assign(Str("FOO"), W(Str("bar")))>>, <<>>), <<>>)

\* python3 -c 'import json'
S_pyJson ==
    Stmt(CallExpr(<<>>, <<W(Python3), W(FlagC), Word(<<SglQuoted(JsonCode)>>)>>), <<>>)

\* python3 -c 'x.split()'
S_pySplit ==
    Stmt(CallExpr(<<>>, <<W(Python3), W(FlagC), Word(<<SglQuoted(SplitCode)>>)>>), <<>>)

\* xargs python3 -c 'import json'
S_xargsPyJson ==
    Stmt(CallExpr(<<>>, <<W(Str("xargs")), W(Python3), W(FlagC),
                          Word(<<SglQuoted(JsonCode)>>)>>), <<>>)

\* $CMD
S_param == Stmt(CallExpr(<<>>, <<Word(<<ParamExp>>)>>), <<>>)

\* "$TOOL" /tmp/x
S_paramArgs ==
    Stmt(CallExpr(<<>>, <<Word(<<DblQuoted(<<ParamExp>>)>>), W(P_tmp)>>), <<>>)

\* echo $(rm /tmp/x)
S_subst ==
    Stmt(CallExpr(<<>>, <<W(Str("echo")), Word(<<CmdSubst(<<S_rm>>)>>)>>), <<>>)

\* curl url | python3 -c 'import json'
S_pipe == Stmt(BinaryCmd(S_curl, S_pyJson), <<>>)

EchoHi == CallExpr(<<>>, <<W(Str("echo")), W(Str("hi"))>>)

\* echo hi > ~/.ssh/id_rsa
S_writeSshKey == Stmt(EchoHi, <<Redirect(54, W(P_sshKey))>>)
\* echo hi > out.txt
S_writeOut == Stmt(EchoHi, <<Redirect(54, W(P_out))>>)
\* echo hi >> ro/log
S_appendRo == Stmt(EchoHi, <<Redirect(56, W(P_roLog))>>)
\* echo hi > $OUT
S_writeParam == Stmt(EchoHi, <<Redirect(54, Word(<<ParamExp>>))>>)
\* wc < ro/log
S_readRo == Stmt(CallExpr(<<>>, <<W(Str("wc"))>>), <<Redirect(52, W(P_roLog))>>)
\* some-unknown-command < .env
S_readEnv ==
    Stmt(CallExpr(<<>>, <<W(<<"some", "-", "unknown", "-", "command">>)>>),
         <<Redirect(52, W(P_env))>>)
\* echo $(wc < .env)
S_substReadEnv ==
    Stmt(CallExpr(<<>>,
           <<W(Str("echo")),
             Word(<<CmdSubst(<<Stmt(CallExpr(<<>>, <<W(Str("wc"))>>),
                                    <<Redirect(52, W(P_env))>>)>>)>>)>>),
         <<>>)

\* the statements a sampled command starts with
StmtPool ==
    {S_ls, S_catEnv, S_catCredentials, S_catSshKey, S_rm, S_unknown, S_curl,
     S_mytool, S_gitStatus, S_nohupRm, S_constructor, S_valueOf,
     S_findToString, S_preload, S_preloadNohup, S_assign, S_pyJson, S_pySplit,
     S_xargsPyJson, S_param, S_paramArgs, S_subst, S_pipe, S_writeSshKey,
     S_writeOut, S_appendRo, S_writeParam, S_readRo, S_readEnv, S_substReadEnv}

\* the statements it goes on with
TailPool ==
    {S_ls, S_rm, S_curl, S_pyJson, S_xargsPyJson, S_constructor, S_writeSshKey}

RECURSIVE StmtLists(_)
\* the statement lists of length n
StmtLists(n) ==
    IF n = 0 THEN {<<>>}
    ELSE IF n = 1 THEN {<<st>> : st \in StmtPool}
    ELSE {Append(l, t) : l \in StmtLists(n - 1), t \in TailPool}

Trees == {File(l) : l \in UNION {StmtLists(n) : n \in 0..MaxStmts}}

\* a config.toml with every section filled in
UserA ==
    [commands |-> [safe |-> <<Str("mytool")>>, db_clients |-> <<Str("pgcli")>>],
     git      |-> [protected_branches |-> <<Str("release")>>],
     paths    |-> [protected |-> << <<"*", "*", "/", "private", "/", "*", "*">> >>,
                   read_only |-> << <<"*", "*", "/", "ro", "/", "*", "*">> >>,
                   no_delete |-> << <<"*", "*", "/", "keep", "/", "*", "*">> >>],
     audit    |-> [enabled |-> TRUE]]

UserFiles ==
    {[state |-> "missing", user |-> NoUser],
     [state |-> "malformed", user |-> NoUser],
     [state |-> "ok", user |-> UserA]}

FilePaths ==
    {<<"/", "project", "/", ".", "env">>, P_env, P_credentials, P_sshKey,
     <<"src", "/", "main", ".", "ts">>, <<"ro", "/", "data", ".", "txt">>,
     <<"keep", "/", "x">>, P_tmp,
     <<".", ".", "/", "project", "/", ".", "env", ".", "local">>,
     <<"server", ".", "pem">>, <<"private", "/", "keep", "/", "a">>,
     <<"ro", "/", "keep", "/", "b">>}

Operations == {"read", "write", "delete"}

\* the payload on stdin: whether it is JSON at all, tool_name ("" when absent),
\* tool_input.command ("" when absent or empty, else "text") with the tree
\* shfmt prints for it, tool_input.file_path (<<>> when absent)
Payload(json, tool, command, tree, filePath) ==
    [json |-> json, tool_name |-> tool, command |-> command, tree |-> tree,
     file_path |-> filePath]

Payloads ==
    {Payload(FALSE, "", "", File(<<>>), <<>>)}
    \cup {Payload(TRUE, tool, "", File(<<>>), fp) :
             tool \in {"Write", "Edit"}, fp \in FilePaths \cup {<<>>}}
    \cup {Payload(TRUE, tool, "text", File(<<S_writeSshKey>>), fp) :
             tool \in {"Write", "Edit"}, fp \in FilePaths \cup {<<>>}}
    \cup {Payload(TRUE, tool, "", File(<<>>), <<>>) : tool \in {"", "Bash"}}
    \cup {Payload(TRUE, "Bash", "text", tree, <<>>) : tree \in Trees}

-----------------------------------------------------------------------------
(* hook.ts *)

\* what the process wrote to stdout: nothing, or the hookSpecificOutput
NoOutput == [permissionDecision |-> "", additionalContext |-> NoSuggestion]
AllowOutput == [permissionDecision |-> "allow", additionalContext |-> NoSuggestion]
AskOutput == [permissionDecision |-> "ask", additionalContext |-> NoSuggestion]
\* feedback() printing the ask without its additionalContext
FeedbackOutputPlain(suggestion) ==
    [permissionDecision |-> "ask", additionalContext |-> NoSuggestion]

FeedbackOutput(suggestion) ==
    [permissionDecision |-> "ask", additionalContext |-> suggestion]

\* audit.log(entry): a no-op unless config.audit.enabled
AuditLogged(cfg, log, tool, decision, layer) ==
    IF cfg.audit.enabled
    THEN Append(log, [tool |-> tool, decision |-> decision, layer |-> layer])
    ELSE log

\* process.exit(code) after writing out
Exit(out, code) ==
    /\ pc' = "exited"
    /\ stdout' = out
    /\ exitCode' = code

\* hook.ts:164-172, the redirects the path policy denies
DeniedRedirects(redirs, cfg) ==
    {i \in 1..Len(redirs) :
        ~checkFilePath(redirs[i].path,
                       IF redirs[i].op = "write" THEN "write" ELSE "read",
                       cfg).allowed}

\* a loop that goes on after a prompt result
StopsOnFeedbackOnly(result) == result.decision = "feedback"

\* hook.ts:196-204, the results that end the per-command loop with a verdict
Stops(result) == result.decision = "feedback" \/ result.decision = "prompt"

\* callIn and callOut while no exported function is called on its own
NoCall == [fn |-> "none"]
NoReturn == "none"

\* audit.ts: no file, no directory, no log() call yet
NoFile == [exists |-> FALSE, lines |-> <<>>]

AuditIdle ==
    /\ dirCreated = FALSE
    /\ auditDir = FALSE
    /\ auditFile = NoFile
    /\ writers = <<>>
    /\ logged = 0

\* pathIn and pathOut while no checkFilePath call is being followed
NoPathCall == [filePath |-> <<>>, operation |-> "none"]
NoPathDecision == [allowed |-> TRUE, tier |-> "pending", pattern |-> <<>>]

\* a routing that knows the Write tool only
IsWriteOnly(tool) == tool = "Write"

IsWriteEdit(tool) == tool = "Write" \/ tool = "Edit"

Init ==
    /\ pc = "start"
    /\ payload \in Payloads
    /\ userFile \in UserFiles
    /\ shfmt = "idle"
    /\ toolName = ""
    /\ toolInput = [command |-> "", file_path |-> <<>>]
    /\ config = DEFAULT_CONFIG
    /\ commandInfos = <<>>
    /\ redirects = <<>>
    /\ idx = 0
    /\ results = <<>>
    /\ ran = {}
    /\ stdout = NoOutput
    /\ exitCode = -1
    /\ auditLog = <<>>
    /\ pathIn = NoPathCall
    /\ pathOut = NoPathDecision
    /\ callIn = NoCall
    /\ callOut = NoReturn
    /\ AuditIdle

\* hook.ts:76-84, stdin is not JSON
ReadInputFails ==
    /\ pc = "start"
    /\ ~payload.json
    /\ Exit(NoOutput, 1)
    /\ UNCHANGED <<payload, userFile, shfmt, toolName, toolInput, config,
                   commandInfos, redirects, idx, results, ran, auditLog,
                   pathIn, pathOut, callIn, callOut, auditVars>>

\* hook.ts:76-94
ReadInput ==
    /\ pc = "start"
    /\ payload.json
    /\ toolName' = payload.tool_name
    /\ toolInput' = [command |-> payload.command, file_path |-> payload.file_path]
    /\ config' = loadConfig(userFile)
    /\ pc' = "route"
    /\ UNCHANGED <<payload, userFile, shfmt, commandInfos, redirects, idx,
                   results, ran, stdout, exitCode, auditLog, pathIn, pathOut, callIn, callOut, auditVars>>

\* hook.ts:100-105
WriteEditNoPath ==
    /\ pc = "route"
    /\ IsWriteEdit(toolName)
    /\ toolInput.file_path = <<>>
    /\ Exit(AllowOutput, 0)
    /\ UNCHANGED <<payload, userFile, shfmt, toolName, toolInput, config,
                   commandInfos, redirects, idx, results, ran, auditLog,
                   pathIn, pathOut, callIn, callOut, auditVars>>

\* hook.ts:108-114
WriteEditBlocked ==
    /\ pc = "route"
    /\ IsWriteEdit(toolName)
    /\ toolInput.file_path # <<>>
    /\ ~checkFilePath(toolInput.file_path, "write", config).allowed
    /\ auditLog' = AuditLogged(config, auditLog, toolName, "prompt", "paths")
    /\ Exit(AskOutput, 0)
    /\ UNCHANGED <<payload, userFile, shfmt, toolName, toolInput, config,
                   commandInfos, redirects, idx, results, ran, pathIn, pathOut, callIn, callOut, auditVars>>

\* hook.ts:108-117
WriteEditAllowed ==
    /\ pc = "route"
    /\ IsWriteEdit(toolName)
    /\ toolInput.file_path # <<>>
    /\ checkFilePath(toolInput.file_path, "write", config).allowed
    /\ auditLog' = AuditLogged(config, auditLog, toolName, "allow", "paths")
    /\ Exit(AllowOutput, 0)
    /\ UNCHANGED <<payload, userFile, shfmt, toolName, toolInput, config,
                   commandInfos, redirects, idx, results, ran, pathIn, pathOut, callIn, callOut, auditVars>>

\* an empty command that ends the process without a verdict
EmptyCommandExits ==
    /\ pc = "route"
    /\ ~IsWriteEdit(toolName)
    /\ toolInput.command = ""
    /\ Exit(NoOutput, 1)
    /\ UNCHANGED <<payload, userFile, shfmt, toolName, toolInput, config,
                   commandInfos, redirects, idx, results, ran, auditLog,
                   pathIn, pathOut, callIn, callOut, auditVars>>

\* hook.ts:122-125
EmptyCommand ==
    /\ pc = "route"
    /\ ~IsWriteEdit(toolName)
    /\ toolInput.command = ""
    /\ Exit(AskOutput, 0)
    /\ UNCHANGED <<payload, userFile, shfmt, toolName, toolInput, config,
                   commandInfos, redirects, idx, results, ran, auditLog,
                   pathIn, pathOut, callIn, callOut, auditVars>>

\* a parse failure answered with allow
ShfmtFailsAllows ==
    /\ pc = "route"
    /\ ~IsWriteEdit(toolName)
    /\ toolInput.command # ""
    /\ shfmt' = "exit"
    /\ Exit(AllowOutput, 0)
    /\ UNCHANGED <<payload, userFile, toolName, toolInput, config,
                   commandInfos, redirects, idx, results, ran, auditLog,
                   pathIn, pathOut, callIn, callOut, auditVars>>

\* hook.ts:131-143, shfmt exits nonzero
ShfmtFails ==
    /\ pc = "route"
    /\ ~IsWriteEdit(toolName)
    /\ toolInput.command # ""
    /\ shfmt' = "exit"
    /\ Exit(AskOutput, 0)
    /\ UNCHANGED <<payload, userFile, toolName, toolInput, config,
                   commandInfos, redirects, idx, results, ran, auditLog,
                   pathIn, pathOut, callIn, callOut, auditVars>>

\* hook.ts:131-151, shfmt exits 0 and its output is not JSON
ShfmtBadJson ==
    /\ pc = "route"
    /\ ~IsWriteEdit(toolName)
    /\ toolInput.command # ""
    /\ shfmt' = "badjson"
    /\ Exit(AskOutput, 0)
    /\ UNCHANGED <<payload, userFile, toolName, toolInput, config,
                   commandInfos, redirects, idx, results, ran, auditLog,
                   pathIn, pathOut, callIn, callOut, auditVars>>

\* hook.ts:131-162, shfmt prints the tree; commands and redirects are extracted
ShfmtParses ==
    /\ pc = "route"
    /\ ~IsWriteEdit(toolName)
    /\ toolInput.command # ""
    /\ shfmt' = "ok"
    /\ commandInfos' = extractCommandInfos(payload.tree)
    /\ redirects' = extractRedirects(payload.tree)
    /\ ran' = ran \cup {"extract"}
    /\ pc' = "redirects"
    /\ UNCHANGED <<payload, userFile, toolName, toolInput, config, idx,
                   results, stdout, exitCode, auditLog, pathIn, pathOut, callIn, callOut, auditVars>>

\* hook.ts:164-172, some redirect is denied
RedirectBlocked ==
    /\ pc = "redirects"
    /\ DeniedRedirects(redirects, config) # {}
    /\ ran' = ran \cup {"redirects"}
    /\ auditLog' = AuditLogged(config, auditLog, "Bash", "prompt", "paths")
    /\ Exit(AskOutput, 0)
    /\ UNCHANGED <<payload, userFile, shfmt, toolName, toolInput, config,
                   commandInfos, redirects, idx, results, pathIn, pathOut, callIn, callOut, auditVars>>

\* hook.ts:164-172, no redirect is denied
RedirectsClear ==
    /\ pc = "redirects"
    /\ DeniedRedirects(redirects, config) = {}
    /\ ran' = ran \cup {"redirects"}
    /\ pc' = "feedback"
    /\ UNCHANGED <<payload, userFile, shfmt, toolName, toolInput, config,
                   commandInfos, redirects, idx, results, stdout, exitCode,
                   auditLog, pathIn, pathOut, callIn, callOut, auditVars>>

\* hook.ts:175-180
PipelineFeedback ==
    /\ pc = "feedback"
    /\ checkFeedbackRules(commandInfos) # NoSuggestion
    /\ ran' = ran \cup {"feedback"}
    /\ auditLog' = AuditLogged(config, auditLog, "Bash", "feedback", "feedback")
    /\ Exit(FeedbackOutput(checkFeedbackRules(commandInfos)), 0)
    /\ UNCHANGED <<payload, userFile, shfmt, toolName, toolInput, config,
                   commandInfos, redirects, idx, results, pathIn, pathOut, callIn, callOut, auditVars>>

\* hook.ts:175-186, no rule matches and there is no command
NoCommands ==
    /\ pc = "feedback"
    /\ checkFeedbackRules(commandInfos) = NoSuggestion
    /\ Len(commandInfos) = 0
    /\ ran' = ran \cup {"feedback"}
    /\ auditLog' = AuditLogged(config, auditLog, "Bash", "allow", "safelist")
    /\ Exit(AllowOutput, 0)
    /\ UNCHANGED <<payload, userFile, shfmt, toolName, toolInput, config,
                   commandInfos, redirects, idx, results, pathIn, pathOut, callIn, callOut, auditVars>>

\* hook.ts:175-190, no rule matches and the per-command loop starts
StartLoop ==
    /\ pc = "feedback"
    /\ checkFeedbackRules(commandInfos) = NoSuggestion
    /\ Len(commandInfos) > 0
    /\ ran' = ran \cup {"feedback"}
    /\ idx' = 1
    /\ pc' = "loop"
    /\ UNCHANGED <<payload, userFile, shfmt, toolName, toolInput, config,
                   commandInfos, redirects, results, stdout, exitCode,
                   auditLog, pathIn, pathOut, callIn, callOut, auditVars>>

\* hook.ts:193, ctx.evaluate(cmdInfo) of this iteration
Evaluated ==
    evaluateBashCommand(commandInfos[idx], createEvalContext(config, commandInfos))

\* hook.ts:192-193, the loop takes the next command and evaluates it
Evaluate ==
    /\ pc = "loop"
    /\ idx <= Len(commandInfos)
    /\ results' = Append(results, Evaluated)
    /\ ran' = ran \cup {"evaluate"}
    /\ pc' = "result"
    /\ UNCHANGED <<payload, userFile, shfmt, toolName, toolInput, config,
                   commandInfos, redirects, idx, stdout, exitCode, auditLog,
                   pathIn, pathOut, callIn, callOut, auditVars>>

\* hook.ts:193, the result of this iteration
LastResult == results[Len(results)]

\* hook.ts:196-199, the result is feedback
EvalFeedback ==
    /\ pc = "result"
    /\ LastResult.decision # "throw"
    /\ Stops(LastResult)
    /\ LastResult.decision = "feedback"
    /\ auditLog' = AuditLogged(config, auditLog, "Bash", "feedback", "evaluate")
    /\ Exit(FeedbackOutput(LastResult.suggestion), 0)
    /\ UNCHANGED <<payload, userFile, shfmt, toolName, toolInput, config,
                   commandInfos, redirects, idx, results, ran, pathIn, pathOut, callIn, callOut, auditVars>>

\* hook.ts:201-204, the result is prompt
EvalPrompt ==
    /\ pc = "result"
    /\ LastResult.decision # "throw"
    /\ Stops(LastResult)
    /\ LastResult.decision # "feedback"
    /\ auditLog' = AuditLogged(config, auditLog, "Bash", "prompt", "evaluate")
    /\ Exit(AskOutput, 0)
    /\ UNCHANGED <<payload, userFile, shfmt, toolName, toolInput, config,
                   commandInfos, redirects, idx, results, ran, pathIn, pathOut, callIn, callOut, auditVars>>

\* hook.ts:192-205, the result is anything else: next iteration
EvalContinue ==
    /\ pc = "result"
    /\ LastResult.decision # "throw"
    /\ ~Stops(LastResult)
    /\ idx' = idx + 1
    /\ pc' = "loop"
    /\ UNCHANGED <<payload, userFile, shfmt, toolName, toolInput, config,
                   commandInfos, redirects, results, ran, stdout, exitCode,
                   auditLog, pathIn, pathOut, callIn, callOut, auditVars>>

\* hook.ts:193, ctx.evaluate threw: nothing catches it, the process dies
EvalThrows ==
    /\ pc = "result"
    /\ LastResult.decision = "throw"
    /\ Exit(NoOutput, 1)
    /\ UNCHANGED <<payload, userFile, shfmt, toolName, toolInput, config,
                   commandInfos, redirects, idx, results, ran, auditLog,
                   pathIn, pathOut, callIn, callOut, auditVars>>

\* hook.ts:207-208
AllSafe ==
    /\ pc = "loop"
    /\ idx > Len(commandInfos)
    /\ auditLog' = AuditLogged(config, auditLog, "Bash", "allow", "evaluate")
    /\ Exit(AllowOutput, 0)
    /\ UNCHANGED <<payload, userFile, shfmt, toolName, toolInput, config,
                   commandInfos, redirects, idx, results, ran, pathIn, pathOut, callIn, callOut, auditVars>>

Next ==
    \/ ReadInputFails
    \/ ReadInput
    \/ WriteEditNoPath
    \/ WriteEditBlocked
    \/ WriteEditAllowed
    \/ EmptyCommand
    \/ ShfmtFails
    \/ ShfmtBadJson
    \/ ShfmtParses
    \/ RedirectBlocked
    \/ RedirectsClear
    \/ PipelineFeedback
    \/ NoCommands
    \/ StartLoop
    \/ Evaluate
    \/ EvalFeedback
    \/ EvalPrompt
    \/ EvalContinue
    \/ EvalThrows
    \/ AllSafe

Spec == Init /\ [][Next]_vars

-----------------------------------------------------------------------------
(* checkFilePath on its own: every sampled path, operation and config file *)

InitPath ==
    /\ pc = "idle"
    /\ payload = Payload(FALSE, "", "", File(<<>>), <<>>)
    /\ userFile \in UserFiles
    /\ shfmt = "idle"
    /\ toolName = ""
    /\ toolInput = [command |-> "", file_path |-> <<>>]
    /\ config = loadConfig(userFile)
    /\ commandInfos = <<>>
    /\ redirects = <<>>
    /\ idx = 0
    /\ results = <<>>
    /\ ran = {}
    /\ stdout = NoOutput
    /\ exitCode = -1
    /\ auditLog = <<>>
    /\ pathIn \in [filePath : FilePaths, operation : Operations]
    /\ pathOut = NoPathDecision
    /\ callIn = NoCall
    /\ callOut = NoReturn
    /\ AuditIdle

CheckPath ==
    /\ pathOut = NoPathDecision
    /\ pathOut' = checkFilePath(pathIn.filePath, pathIn.operation, config)
    /\ UNCHANGED <<hookVars, pathIn, callIn, callOut, auditVars>>

NextPath == CheckPath

SpecPath == InitPath /\ [][NextPath]_vars

-----------------------------------------------------------------------------
(* evaluateBashCommand on its own: one sampled invocation per behaviour *)

SelectOne == <<"SELECT", " ", "1">>
DropTable == <<"DROP", " ", "TABLE", " ", "t">>

\* the argument lists of the commands evaluated, args[0] being the name
UsrBinRm == <<"/", "usr", "/", "bin", "/", "rm">>

BaseArgs ==
    {<<Str("ls")>>,
     <<Str("git"), Str("status")>>,
     <<Str("git"), Str("push"), <<"-", "-", "force">>>>,
     <<Str("git"), Str("push"), Str("origin"), Str("release")>>,
     <<Str("git"), Str("push"), Str("origin"), Str("main")>>,
     <<Str("psql"), FlagC, SelectOne>>,
     <<Str("psql")>>,
     <<Str("psql"), FlagC, DropTable>>,
     <<Str("psql"), FlagC, SelectOne, FlagC, DropTable>>,
     <<Str("psql"), <<"-", "-", "command", "=", "SELECT", " ", "1">>>>,
     <<Str("mysql"), <<"-", "e">>, SelectOne \o <<";", " ">> \o DropTable>>,
     <<Str("mysql"), <<"-", "-", "execute">>, SelectOne>>,
     <<Str("pgcli"), FlagC, SelectOne>>,
     <<Str("sqlite3"), Str("db"), SelectOne>>,
     <<Str("sqlite3"), Str("db"), DropTable>>,
     <<Str("pgcli")>>,
     <<Str("mytool")>>,
     <<<<"some", "-", "unknown", "-", "command">>, <<"-", "-", "flag">>>>,
     <<Str("rm"), P_tmp>>,
     <<Str("rm"), <<"keep", "/", "x">>>>,
     <<Str("cat"), P_env>>,
     <<Str("cat"), <<"/", "project", "/", ".", "env">>>>,
     <<Str("cat"), <<"-", "n">>, P_sshKey>>,
     <<Str("cat"), P_credentials>>,
     <<Str("cat"), <<"server", ".", "pem">>>>,
     <<Str("cat"), <<"src", "/", "main", ".", "ts">>>>,
     <<Str("cp"), <<"src", "/", "main", ".", "ts">>, <<"ro", "/", "data", ".", "txt">>>>,
     <<Str("chmod"), <<"6", "4", "4">>, <<"private", "/", "keep", "/", "a">>>>,
     <<Python3, FlagC, JsonCode>>,
     <<Str("xargs"), Python3, FlagC, SplitCode>>,
     <<Str("constructor")>>,
     <<Str("find"), Dot, <<"-", "exec">>, Str("rm"), <<";">>>>,
     <<UsrBinRm, Str("x")>>,
     <<<<"/", "bin", "/", "ls">>>>,
     <<Str("xargs"), UsrBinRm>>,
     <<Str("xargs"), Str("timeout"), Str("5"), Str("find"), Dot, <<"-", "exec">>,
       Str("xargs"), Str("ls"), <<";">>>>,
     <<Str("find"), Dot, <<"-", "exec">>, <<"/", "bin", "/", "ls">>, <<";">>>>}

\* transparent wrappers put in front of them
WrapperPrefixes ==
    {<<>>,
     <<Str("nohup")>>,
     <<Str("nice"), <<"-", "n">>, Str("5")>>,
     <<Str("timeout"), <<"1", "0">>>>,
     <<Str("nohup"), Str("timeout"), <<"-", "s">>, Str("KILL"), Str("5")>>}

EnvAssign(name) == [name |-> Str(name), value |-> Str("x")]

\* the inline assignments they carry
AssignLists ==
    {<<>>, <<EnvAssign("FOO")>>, <<EnvAssign("FOO"), EnvAssign("PROMPT_COMMAND")>>}
    \cup {<<EnvAssign(v)>> : v \in DANGEROUS_ENV_VARS}

\* parser.ts: the invocation extractCommandInfos builds from the words of a call
ParsedCall(words, a) ==
    LET name == SplitPop(words[1], "/")
    IN  [name |-> name, args |-> <<name>> \o Tail(words), assigns |-> a]

EvalInputs ==
    {ParsedCall(w \o b, a) :
        w \in WrapperPrefixes, b \in BaseArgs, a \in AssignLists}

InitEval ==
    /\ pc = "evaluate"
    /\ payload = Payload(FALSE, "", "", File(<<>>), <<>>)
    /\ userFile \in UserFiles
    /\ shfmt = "idle"
    /\ toolName = ""
    /\ toolInput = [command |-> "", file_path |-> <<>>]
    /\ config = loadConfig(userFile)
    /\ commandInfos \in {<<c>> : c \in EvalInputs}
    /\ redirects = <<>>
    /\ idx = 1
    /\ results = <<>>
    /\ ran = {}
    /\ stdout = NoOutput
    /\ exitCode = -1
    /\ auditLog = <<>>
    /\ pathIn = NoPathCall
    /\ pathOut = NoPathDecision
    /\ callIn = NoCall
    /\ callOut = NoReturn
    /\ AuditIdle

\* ctx.evaluate(cmd) on the invocation
EvaluateOne ==
    /\ pc = "evaluate"
    /\ results' = <<Evaluated>>
    /\ pc' = "evaluated"
    /\ UNCHANGED <<payload, userFile, shfmt, toolName, toolInput, config,
                   commandInfos, redirects, idx, ran, stdout, exitCode,
                   auditLog, pathIn, pathOut, callIn, callOut, auditVars>>

NextEval == EvaluateOne

SpecEval == InitEval /\ [][NextEval]_vars

-----------------------------------------------------------------------------
(* Exported functions called on their own, as the unit tests call them *)

\* git-level flags between "git" and the subcommand
GitPreFlags ==
    {<<>>,
     <<<<"-", "C">>, <<"/", "some", "/", "path">>>>,
     <<<<"-", "C">>, Str("status")>>,
     <<<<"-", "-", "no", "-", "pager">>>>,
     <<<<"-", "c">>, <<"color", ".", "ui", "=", "auto">>>>,
     <<<<"-", "c">>, <<"core", ".", "fsmonitor", "=", "evil">>>>,
     <<<<"-", "c">>, <<"alias", ".", "x", "=", "!evil">>>>,
     <<<<"-", "-", "config">>, <<"core", ".", "sshCommand", "=", "evil">>>>,
     <<<<"-", "-", "git", "-", "dir", "=", "/", "x">>>>,
     <<<<"-", "-", "work", "-", "tree">>, <<"/", "w">>, <<"-", "-", "no", "-", "pager">>>>}

Origin == Str("origin")
FeatX == <<"feat", "/", "x">>

\* a subcommand followed by its arguments; <<>> is bare git
GitCalls ==
    {<<>>,
     <<Str("reset")>>,
     <<Str("reset"), <<"-", "-", "hard">>>>,
     <<Str("reset"), <<"-", "-", "soft">>, Str("HEAD~1")>>,
     <<Str("clean"), <<"-", "fd">>>>,
     <<Str("clean"), <<"-", "n">>>>,
     <<Str("push")>>,
     <<Str("push"), <<"-", "-", "force">>>>,
     <<Str("push"), <<"-", "f">>, Origin, FeatX>>,
     <<Str("push"), Origin, FeatX, <<"-", "-", "force", "-", "with", "-", "lease">>>>,
     <<Str("push"), <<"-", "-", "force", "-", "if", "-", "includes">>, Origin>>,
     <<Str("push"), Origin, FeatX>>,
     <<Str("push"), Origin, Str("main")>>,
     <<Str("push"), Origin, <<"HEAD", ":", "main">>>>,
     <<Str("push"), <<"-", "u">>, Origin, Str("prod")>>,
     <<Str("push"), Origin, <<"main", ":", "feature">>>>,
     <<Str("push"), Origin, <<"a", ":", "b", ":", "staging">>>>,
     <<Str("push"), Origin, Str("release")>>,
     <<Str("rebase"), Str("master")>>,
     <<Str("rebase"), <<"-", "i">>, Str("production")>>,
     <<Str("rebase"), <<"feat", "/", "other">>>>,
     <<Str("checkout"), Dot>>,
     <<Str("checkout"), FeatX>>,
     <<Str("checkout"), <<"-", "-">>, Dot>>,
     <<Str("restore"), Dot>>,
     <<Str("restore"), <<"src", "/", "main", ".", "ts">>>>,
     <<Str("branch")>>,
     <<Str("branch"), <<"-", "a">>>>,
     <<Str("branch"), <<"-", "D">>, FeatX>>,
     <<Str("branch"), <<"-", "d">>, FeatX>>,
     <<Str("branch"), FeatX, <<"-", "-", "force">>>>,
     <<Str("stash")>>,
     <<Str("stash"), Str("pop")>>,
     <<Str("stash"), Str("drop")>>,
     <<Str("stash"), Str("clear")>>,
     <<Str("status")>>,
     <<Str("log"), <<"-", "-", "oneline">>>>,
     <<Str("commit"), <<"-", "m">>, Str("msg")>>,
     <<Str("add"), Dot>>,
     <<Str("fetch")>>,
     <<Str("frobnicate")>>,
     <<Str("submodule"), Str("update")>>,
     <<<<"filter", "-", "branch">>>>,
     <<Str("config"), <<"-", "-", "list">>>>,
     <<Str("config"), <<"user", ".", "email">>>>,
     <<Str("config"), <<"color", ".", "ui">>, Str("auto")>>,
     <<Str("config"), <<"core", ".", "fsmonitor">>, Str("evil")>>,
     <<Str("config"), <<"core", ".", "hooksPath">>, <<"/", "evil">>>>,
     <<Str("config"), <<"alias", ".", "x">>, Str("!evil")>>,
     <<Str("config"), <<"credential", ".", "helper">>, Str("!evil")>>,
     <<Str("config"), <<"filter", ".", "lfs", ".", "clean">>, Str("evil")>>}

\* SQL statements with the type pgsql-ast-parser gives them, "error" for text
\* it rejects
SqlStmtPool ==
    {[text |-> SelectOne, kind |-> "select"],
     [text |-> <<"WITH", " ", "x", " ", "AS", " ", "(SELECT 1)", " ", "SELECT", " ", "2">>,
      kind |-> "with"],
     [text |-> <<"show", " ", "all">>, kind |-> "show"],
     [text |-> <<"VALUES", " ", "(1)">>, kind |-> "values"],
     [text |-> <<"INSERT", " ", "INTO", " ", "t", " ", "VALUES", " ", "(1)">>,
      kind |-> "insert"],
     [text |-> DropTable, kind |-> "drop"],
     [text |-> <<"update", " ", "t", " ", "SET", " ", "a", "=", "1">>, kind |-> "update"],
     [text |-> <<"FOO", " ", "bar">>, kind |-> "error"]}

RECURSIVE SqlStmtLists(_)
SqlStmtLists(n) ==
    IF n = 0 THEN {<<>>}
    ELSE {Append(l, t) : l \in SqlStmtLists(n - 1), t \in SqlStmtPool}

RECURSIVE JoinSql(_)
\* the statements written one after the other, "; " between them
JoinSql(stmts) ==
    IF stmts = <<>> THEN <<>>
    ELSE IF Len(stmts) = 1 THEN stmts[1].text
    ELSE stmts[1].text \o <<";", " ">> \o JoinSql(Tail(stmts))

\* psql meta-commands, sqlite dot-commands and PRAGMAs
MetaCommands ==
    {<<"\\", "dt">>, <<"\\", "dt", "+">>, <<"\\", "d", " ", "users">>,
     <<"\\", "l">>, <<"\\", "x">>, <<"\\", "conninfo">>,
     <<"\\", "!", " ", "ls">>, <<"\\", "copy", " ", "t", " ", "to", " ", "f">>,
     <<"\\", "i", " ", "f">>, <<"\\", "o", " ", "f">>, <<"\\", "w", " ", "f">>,
     <<"\\">>, <<"\\", "unknown">>,
     <<".", "tables">>, <<".", "schema", " ", "t">>, <<".", "dump">>,
     <<".", "import", " ", "f", " ", "t">>, <<".", "restore", " ", "f">>,
     <<".", "open", " ", "f">>, <<".", "output", " ", "f">>, <<".", "save", " ", "f">>,
     <<".", "backup", " ", "f">>, <<".", "read", " ", "f">>,
     <<".", "system", " ", "ls">>, <<".", "shell", " ", "ls">>,
     <<"PRAGMA", " ", "table_info(t)">>, <<"pragma", " ", "journal_mode">>,
     <<"PRAGMA", " ", "journal_mode", "=", "WAL">>,
     <<"pragma", " ", "user_version", " ", "=", " ", "1", ";">>}

SqlInputs ==
    {[fn |-> "isSqlReadOnly", sql |-> JoinSql(l), stmts |-> l] :
        l \in UNION {SqlStmtLists(n) : n \in 0..MaxSqlStmts}}
    \cup {[fn |-> "isSqlReadOnly", sql |-> m, stmts |-> <<>>] : m \in MetaCommands}

GitInputs ==
    {[fn |-> "isGitCommandSafe", pre |-> pre, call |-> call] :
        pre \in GitPreFlags, call \in GitCalls}

\* the tokens of the git command line
GitArgs(in) == <<Str("git")>> \o in.pre \o in.call

\* the longest list of find's primaries and -exec clauses
MaxFindItems == 2

\* the deepest nesting of wrappers
MaxWraps == 2

Braces == <<"{}">>

\* what follows find's starting point: a primary of find itself, or an
\* -exec / -execdir clause with its sub-command and its terminator
FindOwn(args) == [kind |-> "own", args |-> args, sub |-> <<>>]

FindExec(flag, sub, term) ==
    [kind |-> "exec", args |-> <<<<"-", flag>>>> \o sub \o <<<<term>>>>, sub |-> sub]

FindItems ==
    {FindOwn(<<<<"-", "name">>, Str("x")>>),
     FindOwn(<<<<"-", "o">>>>),
     FindOwn(<<<<"-", "delete">>>>),
     FindOwn(<<<<"-", "ok">>>>),
     FindExec("exec", <<Str("echo"), Braces>>, ";"),
     FindExec("execdir", <<Str("ls"), <<"-", "l">>>>, "+"),
     FindExec("exec", <<Str("echo"), <<"-", "delete">>>>, ";"),
     FindExec("exec", <<Str("rm"), Braces>>, ";"),
     FindExec("exec", <<Str("nohup"), Str("rm"), Braces>>, "+"),
     FindExec("execdir", <<>>, ";"),
     FindExec("exec", <<Python3, FlagC, JsonCode>>, ";"),
     FindExec("exec", <<Str("toString"), Braces>>, ";")}

RECURSIVE FindItemLists(_)
FindItemLists(n) ==
    IF n = 0 THEN {<<>>}
    ELSE {<<i>> \o l : i \in FindItems, l \in FindItemLists(n - 1)}

RECURSIVE ItemArgs(_)
ItemArgs(items) ==
    IF items = <<>> THEN <<>> ELSE items[1].args \o ItemArgs(Tail(items))

FindInputs ==
    {[fn |-> "inspector", tool |-> "find", items |-> l,
      args |-> <<Str("find"), Dot>> \o ItemArgs(l)] :
        l \in UNION {FindItemLists(n) : n \in 0..MaxFindItems}}

\* xargs' own flags, the two-argument ones with their values
XargsFlagLists ==
    {<<>>,
     <<<<"-", "0">>>>,
     <<<<"-", "-", "null">>, <<"-", "r">>>>,
     <<<<"-", "I">>, Braces>>,
     <<<<"-", "L">>, Str("1")>>,
     <<<<"-", "n">>, Str("1")>>,
     <<<<"-", "P">>, Str("4"), <<"-", "0">>>>,
     <<<<"-", "d">>, Str(",")>>,
     <<<<"-", "s">>, Str("9")>>,
     <<<<"-", "a">>, Str("file")>>,
     <<<<"-", "R">>, Str("2")>>,
     <<<<"-", "t">>, <<"-", "n">>, Str("1"), <<"-", "I">>, Braces>>}

XargsSubs ==
    {<<>>,
     <<Str("echo")>>,
     <<Str("rm"), <<"-", "rf">>>>,
     <<Str("grep"), <<"-", "n">>, Str("x")>>,
     <<Str("git"), Str("status")>>,
     <<Str("git"), Str("push"), <<"-", "-", "force">>>>,
     <<Str("nohup"), Str("rm"), Str("x")>>,
     <<Str("timeout"), Str("5"), Str("ls")>>,
     <<Str("mytool"), <<"-", "n">>>>,
     <<Python3, FlagC, JsonCode>>,
     <<Str("sed"), <<"-", "i">>, Str("s")>>}

XargsInputs ==
    {[fn |-> "inspector", tool |-> "xargs", flags |-> f, sub |-> b,
      args |-> <<Str("xargs")>> \o f \o b] :
        f \in XargsFlagLists, b \in XargsSubs}

\* the longest list of arguments after kill
MaxKillArgs == 3

KillPool ==
    {<<"-", "s">>, Str("TERM"), <<"-", "9">>, <<"-", "TERM">>, <<"-", "1">>,
     Str("1"), <<"1", "0">>, <<"1", "2", "3", "4", "5">>, <<"-", "l">>, <<"-", "-">>}

RECURSIVE KillArgLists(_)
KillArgLists(n) ==
    IF n = 0 THEN {<<>>}
    ELSE {<<a>> \o l : a \in KillPool, l \in KillArgLists(n - 1)}

KillInputs ==
    {[fn |-> "inspector", tool |-> "kill", args |-> <<Str("kill")>> \o l] :
        l \in UNION {KillArgLists(n) : n \in 0..MaxKillArgs}}

\* numeric modes: the special digit ("" when the mode has three digits),
\* then the digits of user, group and others
ChmodNumeric ==
    {[kind |-> "numeric",
      text |-> (IF sp = "" THEN <<>> ELSE <<sp>>) \o <<u, g, o>>] :
        sp \in {"", "0", "1", "2", "4"}, u \in {"6", "7"}, g \in {"4", "6", "7"},
        o \in {"0", "1", "2", "3", "4", "5", "6", "7"}}

\* symbolic modes: who, operator, permissions
ChmodSymbolic ==
    {[kind |-> "symbolic", who |-> w, op |-> op, perms |-> pm,
      text |-> w \o <<op>> \o pm] :
        w \in {<<>>, <<"u">>, <<"g">>, <<"o">>, <<"a">>, <<"u", "g", "o">>, <<"g", "o">>},
        op \in {"+", "-", "="},
        pm \in {<<"r">>, <<"w">>, <<"x">>, <<"s">>, <<"t">>, <<"r", "w">>,
                <<"r", "w", "x">>, <<"x", "s">>, <<"X">>}}

ChmodInputs ==
    {[fn |-> "inspector", tool |-> "chmod", mode |-> m,
      args |-> <<Str("chmod")>> \o f \o <<m.text, Str("file")>>] :
        m \in ChmodNumeric \cup ChmodSymbolic, f \in {<<>>, <<<<"-", "R">>>>}}

\* the most options between docker run / exec and the image
MaxDockerOpts == 2

RootMount == <<"/", ":", "/", "host">>
DataMount == <<"/", "data", ":", "/", "data">>

DockerOpt(args, risky) == [args |-> args, risky |-> risky]

\* options of docker run / exec, each with whether it is one of the risky ones
DockerOpts ==
    {DockerOpt(<<<<"-", "-", "privileged">>>>, TRUE),
     DockerOpt(<<<<"-", "-", "pid", "=", "host">>>>, TRUE),
     DockerOpt(<<<<"-", "-", "net", "=", "host">>>>, TRUE),
     DockerOpt(<<<<"-", "-", "network", "=", "host">>>>, TRUE),
     DockerOpt(<<<<"-", "v">>, RootMount>>, TRUE),
     DockerOpt(<<<<"-", "-", "volume">>, RootMount>>, TRUE),
     DockerOpt(<<<<"-", "-", "volume", "=">> \o RootMount>>, TRUE),
     DockerOpt(<<<<"-", "v">>, DataMount>>, FALSE),
     DockerOpt(<<<<"-", "-", "volume", "=">> \o DataMount>>, FALSE),
     DockerOpt(<<<<"-", "-", "rm">>>>, FALSE),
     DockerOpt(<<<<"-", "-", "network", "=", "bridge">>>>, FALSE)}

RECURSIVE DockerOptLists(_)
DockerOptLists(n) ==
    IF n = 0 THEN {<<>>}
    ELSE {<<o>> \o l : o \in DockerOpts, l \in DockerOptLists(n - 1)}

RECURSIVE OptArgs(_)
OptArgs(opts) == IF opts = <<>> THEN <<>> ELSE opts[1].args \o OptArgs(Tail(opts))

DockerInputs ==
    {[fn |-> "inspector", tool |-> "docker", sub |-> sub, opts |-> l,
      args |-> <<Str("docker"), Str(sub)>> \o OptArgs(l) \o <<Str("ubuntu")>>] :
        sub \in {"run", "exec"},
        l \in UNION {DockerOptLists(n) : n \in 0..MaxDockerOpts}}
    \cup {[fn |-> "inspector", tool |-> "docker", sub |-> sub, opts |-> <<>>,
           args |-> <<Str("docker"), Str(sub), Str("x")>>] :
             sub \in {"ps", "logs", "stop", "swarm", "push"}}
    \cup {[fn |-> "inspector", tool |-> "docker", sub |-> "", opts |-> <<>>,
           args |-> <<Str("docker")>>]}

\* the longest invocation list handed to checkFeedbackRules
MaxCmds == 3

CmdOf(args) == [name |-> args[1], args |-> args, assigns |-> <<>>]

\* an invocation with what its inline code holds
FeedbackItem(args, json, strop) == [cmd |-> CmdOf(args), json |-> json, strop |-> strop]

FeedbackItems ==
    {FeedbackItem(<<Python3, FlagC, JsonCode>>, TRUE, FALSE),
     FeedbackItem(<<Str("python"), FlagC, <<"json", ".split(">>>>, TRUE, TRUE),
     FeedbackItem(<<Str("node"), <<"-", "e">>, <<"JSON", ".parse(x)">>>>, TRUE, FALSE),
     FeedbackItem(<<Str("node"), <<"-", "-", "print">>, <<"JSON", ".trim(">>>>, TRUE, TRUE),
     FeedbackItem(<<Python3, FlagC, <<"s", ".split(", ")">>>>, FALSE, TRUE),
     FeedbackItem(<<Str("node"), <<"-", "p">>, <<"s", ".trim(", ")">>>>, FALSE, TRUE),
     FeedbackItem(<<Str("node"), <<"-", "-", "eval">>, <<"1+1">>>>, FALSE, FALSE),
     FeedbackItem(<<Python3, <<"script", ".", "py">>>>, FALSE, FALSE),
     FeedbackItem(<<Str("curl"), Str("url")>>, FALSE, FALSE),
     FeedbackItem(<<Str("ls")>>, FALSE, FALSE)}

RECURSIVE FeedbackLists(_)
FeedbackLists(n) ==
    IF n = 0 THEN {<<>>}
    ELSE {<<i>> \o l : i \in FeedbackItems, l \in FeedbackLists(n - 1)}

FeedbackInputs ==
    {[fn |-> "checkFeedbackRules", items |-> l] :
        l \in UNION {FeedbackLists(n) : n \in 0..MaxCmds}}

\* the invocation handed to an inspector
InspectedCmd(in) == [name |-> Str(in.tool), args |-> in.args, assigns |-> <<>>]

\* one wrapper with its flags, timeout with its DURATION
WrapPool ==
    {<<Str("nohup")>>,
     <<Str("nice")>>,
     <<Str("nice"), <<"-", "n">>, <<"1", "0">>>>,
     <<Str("nice"), <<"-", "n", "1", "0">>>>,
     <<Str("nice"), <<"-", "-", "adjustment", "=", "1", "0">>>>,
     <<Str("nice"), <<"-", "-", "adjustment">>, <<"1", "0">>>>,
     <<Str("nice"), <<"-", "1", "0">>>>,
     <<Str("timeout"), <<"3", "0">>>>,
     <<Str("timeout"), <<"5", "s">>>>,
     <<Str("timeout"), <<"-", "-", "signal", "=", "TERM">>, <<"3", "0">>>>,
     <<Str("timeout"), <<"-", "s">>, Str("KILL"), <<"3", "0">>>>,
     <<Str("timeout"), <<"-", "k">>, <<"5", "s">>, <<"3", "0">>>>,
     <<Str("timeout"), <<"-", "-", "preserve", "-", "status">>,
       <<"-", "-", "foreground">>, <<"3", "0">>>>}

RECURSIVE WrapLists(_)
WrapLists(n) ==
    IF n = 0 THEN {<<>>}
    ELSE {<<w>> \o l : w \in WrapPool, l \in WrapLists(n - 1)}

\* the innermost invocations, <<>> when the wrappers wrap nothing
InnerArgs ==
    {<<>>,
     <<Str("bun"), <<"server", ".", "ts">>>>,
     <<Str("ls")>>,
     <<Str("rm"), <<"-", "rf">>, Str("x")>>,
     <<Str("git"), Str("push"), <<"-", "-", "force">>>>}

UnwrapInputs ==
    {[fn |-> "unwrapCommand", wraps |-> w, inner |-> c, assigns |-> a] :
        w \in UNION {WrapLists(n) : n \in 0..MaxWraps},
        c \in InnerArgs,
        a \in {<<>>, <<EnvAssign("FOO")>>, <<EnvAssign("LD_PRELOAD"), EnvAssign("FOO")>>}}

\* the invocation the parser builds from wrappers around an inner invocation
Wrapped(wraps, inner, a) ==
    LET args == Flatten(wraps) \o inner
    IN  [name |-> args[1], args |-> args, assigns |-> a]

CallInputs ==
    GitInputs \cup SqlInputs \cup FindInputs \cup XargsInputs \cup KillInputs
    \cup ChmodInputs \cup DockerInputs \cup FeedbackInputs
    \cup {in \in UnwrapInputs : in.wraps # <<>> \/ in.inner # <<>>}

InitCall ==
    /\ pc = "call"
    /\ payload = Payload(FALSE, "", "", File(<<>>), <<>>)
    /\ userFile = [state |-> "missing", user |-> NoUser]
    /\ shfmt = "idle"
    /\ toolName = ""
    /\ toolInput = [command |-> "", file_path |-> <<>>]
    /\ config = loadConfig(userFile)
    /\ commandInfos = <<>>
    /\ redirects = <<>>
    /\ idx = 0
    /\ results = <<>>
    /\ ran = {}
    /\ stdout = NoOutput
    /\ exitCode = -1
    /\ auditLog = <<>>
    /\ pathIn = NoPathCall
    /\ pathOut = NoPathDecision
    /\ callIn \in CallInputs
    /\ callOut = NoReturn
    /\ AuditIdle

\* what is left alone by a call that reads nothing but its arguments
Returns(fn) ==
    /\ pc = "call"
    /\ callIn.fn = fn
    /\ pc' = "returned"
    /\ UNCHANGED <<payload, userFile, shfmt, toolName, toolInput, config,
                   commandInfos, redirects, idx, results, ran, stdout,
                   exitCode, auditLog, pathIn, pathOut, callIn, auditVars>>

\* isGitCommandSafe(command)
CallIsGitCommandSafe ==
    /\ Returns("isGitCommandSafe")
    /\ callOut' = isGitCommandSafe(GitArgs(callIn))

\* isSqlReadOnly(sql)
CallIsSqlReadOnly ==
    /\ Returns("isSqlReadOnly")
    /\ callOut' = isSqlReadOnly(callIn.sql)

\* INSPECTORS[name](cmdInfo, ctx)
CallInspector ==
    /\ Returns("inspector")
    /\ callOut' = RunInspector(InspectedCmd(callIn),
                               createEvalContext(config, <<InspectedCmd(callIn)>>))

\* unwrapCommand(cmdInfo)
CallUnwrapCommand ==
    /\ Returns("unwrapCommand")
    /\ callOut' = unwrapCommand(Wrapped(callIn.wraps, callIn.inner, callIn.assigns))

\* checkFeedbackRules(commandInfos)
CallCheckFeedbackRules ==
    /\ Returns("checkFeedbackRules")
    /\ callOut' = checkFeedbackRules([i \in 1..Len(callIn.items) |-> callIn.items[i].cmd])

NextCall ==
    \/ CallIsGitCommandSafe
    \/ CallIsSqlReadOnly
    \/ CallInspector
    \/ CallUnwrapCommand
    \/ CallCheckFeedbackRules

SpecCall == InitCall /\ [][NextCall]_vars

\* the call of fn has returned
Returned(fn) == pc = "returned" /\ callIn.fn = fn

-----------------------------------------------------------------------------
(* audit.ts: the logger of an enabled configuration.  The host is the hook  *)
(* script, which calls log() once and then process.exit, or a test, which   *)
(* calls log() k times in a row and then waits.                              *)

\* the most log() calls in a row
MaxLogCalls == 3

\* the file before the first call: absent, or holding one earlier line
PreviousFiles == {NoFile, [exists |-> TRUE, lines |-> <<0>>]}

AuditInputs ==
    {[fn |-> "log", host |-> "hook", k |-> 1, prev |-> f] : f \in PreviousFiles}
    \cup {[fn |-> "log", host |-> "test", k |-> k, prev |-> f] :
             k \in 1..MaxLogCalls, f \in PreviousFiles}

InitAudit ==
    /\ pc = "audit"
    /\ payload = Payload(FALSE, "", "", File(<<>>), <<>>)
    /\ userFile = [state |-> "ok", user |-> UserA]
    /\ shfmt = "idle"
    /\ toolName = ""
    /\ toolInput = [command |-> "", file_path |-> <<>>]
    /\ config = loadConfig(userFile)
    /\ commandInfos = <<>>
    /\ redirects = <<>>
    /\ idx = 0
    /\ results = <<>>
    /\ ran = {}
    /\ stdout = NoOutput
    /\ exitCode = -1
    /\ auditLog = <<>>
    /\ pathIn = NoPathCall
    /\ pathOut = NoPathDecision
    /\ callIn \in AuditInputs
    /\ callOut = NoReturn
    /\ dirCreated = FALSE
    /\ auditDir \in BOOLEAN
    /\ auditFile = callIn.prev
    /\ writers = <<>>
    /\ logged = 0
    /\ (callIn.prev.exists => auditDir)

\* audit.ts:33-41, the synchronous part of log(): the line is built and the
\* asynchronous function runs up to its first await
StartWriter ==
    [pc       |-> IF dirCreated THEN "exists" ELSE "mkdir",
     line     |-> logged + 1,
     existing |-> <<>>]

notAudit == <<payload, userFile, shfmt, toolName, toolInput, config,
              commandInfos, redirects, idx, results, ran, auditLog,
              pathIn, pathOut, callIn, callOut>>

\* a test calls log(entry)
Log ==
    /\ pc = "audit"
    /\ callIn.host = "test"
    /\ logged < callIn.k
    /\ writers' = Append(writers, StartWriter)
    /\ logged' = logged + 1
    /\ UNCHANGED <<pc, stdout, exitCode, notAudit, dirCreated, auditDir, auditFile>>

\* hook.ts: audit.log(entry) followed at once by allow / prompt / feedback,
\* which write the verdict and call process.exit(0)
LogAndExit ==
    /\ pc = "audit"
    /\ callIn.host = "hook"
    /\ logged = 0
    /\ writers' = Append(writers, StartWriter)
    /\ logged' = 1
    /\ Exit(AllowOutput, 0)
    /\ UNCHANGED <<notAudit, dirCreated, auditDir, auditFile>>

\* the event loop runs a continuation only when the synchronous code has
\* ended and the process is alive
Resumes(w) ==
    /\ pc = "audit"
    /\ logged = callIn.k
    /\ w \in 1..Len(writers)

Step(w, to, existing) ==
    writers' = [writers EXCEPT ![w] = [pc |-> to, line |-> @.line, existing |-> existing]]

\* audit.ts:41-42, mkdir -p has exited
MkdirExited ==
    \E w \in 1..Len(writers) :
        /\ Resumes(w)
        /\ writers[w].pc = "mkdir"
        /\ auditDir' = TRUE
        /\ dirCreated' = TRUE
        /\ Step(w, "exists", <<>>)
        /\ UNCHANGED <<pc, stdout, exitCode, notAudit, auditFile, logged>>

\* audit.ts:45, file.exists() has answered
FileExists ==
    \E w \in 1..Len(writers) :
        /\ Resumes(w)
        /\ writers[w].pc = "exists"
        /\ Step(w, IF auditFile.exists THEN "read" ELSE "write", <<>>)
        /\ UNCHANGED <<pc, stdout, exitCode, notAudit, dirCreated, auditDir,
                       auditFile, logged>>

\* audit.ts:45, file.text() has answered
ReadExisting ==
    \E w \in 1..Len(writers) :
        /\ Resumes(w)
        /\ writers[w].pc = "read"
        /\ Step(w, "write", auditFile.lines)
        /\ UNCHANGED <<pc, stdout, exitCode, notAudit, dirCreated, auditDir,
                       auditFile, logged>>

\* audit.ts:46, Bun.write(path, existing + line) has finished
WriteBack ==
    \E w \in 1..Len(writers) :
        /\ Resumes(w)
        /\ writers[w].pc = "write"
        /\ auditFile' = [exists |-> TRUE,
                         lines  |-> Append(writers[w].existing, writers[w].line)]
        /\ Step(w, "done", writers[w].existing)
        /\ UNCHANGED <<pc, stdout, exitCode, notAudit, dirCreated, auditDir, logged>>

NextAudit ==
    \/ Log
    \/ LogAndExit
    \/ MkdirExited
    \/ FileExists
    \/ ReadExisting
    \/ WriteBack

SpecAudit == InitAudit /\ [][NextAudit]_vars

\* every append that was started has finished
AllWritten ==
    /\ logged = callIn.k
    /\ \A w \in 1..Len(writers) : writers[w].pc = "done"

-----------------------------------------------------------------------------
(* The hook's answer as a function of what it extracted: hook.ts:164-208 *)

Outcome(out, code, evaluated) ==
    [stdout |-> out, exitCode |-> code, evaluated |-> evaluated]

\* what the hook prints for a result that ends the loop
OutputOf(result) ==
    IF result.decision = "feedback" THEN FeedbackOutput(result.suggestion)
    ELSE AskOutput

RECURSIVE LoopOutcome(_, _, _)
\* hook.ts:192-208 from iteration i on
LoopOutcome(infos, i, cfg) ==
    IF i > Len(infos) THEN Outcome(AllowOutput, 0, Len(infos))
    ELSE LET result == evaluateBashCommand(infos[i], createEvalContext(cfg, infos))
         IN  IF result.decision = "throw" THEN Outcome(NoOutput, 1, i)
             ELSE IF Stops(result) THEN Outcome(OutputOf(result), 0, i)
             ELSE LoopOutcome(infos, i + 1, cfg)

\* hook.ts:164-208
HookOutcome(infos, redirs, cfg) ==
    IF DeniedRedirects(redirs, cfg) # {} THEN Outcome(AskOutput, 0, 0)
    ELSE IF checkFeedbackRules(infos) # NoSuggestion
         THEN Outcome(FeedbackOutput(checkFeedbackRules(infos)), 0, 0)
    ELSE IF Len(infos) = 0 THEN Outcome(AllowOutput, 0, 0)
    ELSE LoopOutcome(infos, 1, cfg)

-----------------------------------------------------------------------------
(* Properties *)

\* ctx.evaluate on the i-th invocation of the list
EvalOf(i) ==
    evaluateBashCommand(commandInfos[i], createEvalContext(config, commandInfos))

\* the hook has answered a Bash command that shfmt parsed
Answered == pc = "exited" /\ shfmt = "ok"

IsAsk(result) == result.decision = "prompt" \/ result.decision = "feedback"

\* C1: the hook prints allow for a Bash command only if no redirect target is
\* denied, no guidance rule matches the invocation list and every invocation
\* evaluates to Allow; a result that is not Allow never leads to allow.
C1_AllowOnlyWhenAllAllow ==
    (Answered /\ stdout.permissionDecision = "allow") =>
        /\ DeniedRedirects(redirects, config) = {}
        /\ checkFeedbackRules(commandInfos) = NoSuggestion
        /\ \A i \in 1..Len(commandInfos) : EvalOf(i).decision = "allow"

\* C2: when shfmt exits nonzero or prints something that is not JSON, the hook
\* answers ask and stops: nothing was extracted, no redirect check, guidance
\* rule or evaluation ran, and the answer is never allow.
C2_ParseFailureAsks ==
    (shfmt = "exit" \/ shfmt = "badjson") =>
        /\ pc = "exited"
        /\ stdout = AskOutput
        /\ exitCode = 0
        /\ ran = {}
        /\ commandInfos = <<>>
        /\ redirects = <<>>
        /\ results = <<>>

\* a command that would be allowed gets ask because shfmt's output is not JSON
C2_Witness ==
    /\ shfmt = "badjson"
    /\ payload.tree = File(<<S_ls>>)
    /\ stdout = AskOutput

\* the names the dangerous-env set holds
DangerousNames ==
    {"LD_PRELOAD", "LD_LIBRARY_PATH", "DYLD_INSERT_LIBRARIES",
     "DYLD_LIBRARY_PATH", "BASH_ENV", "ENV", "PROMPT_COMMAND"}

CarriesDangerousAssign(c) ==
    \E i \in 1..Len(c.assigns) : \E v \in DangerousNames : c.assigns[i].name = Str(v)

\* C3: an invocation that carries an assignment to a dangerous variable
\* evaluates to a plain prompt whatever its name is, wrapped or not.
C3_DangerousEnvAsks ==
    (pc = "evaluated" /\ CarriesDangerousAssign(commandInfos[1])) =>
        /\ results[1].decision = "prompt"
        /\ results[1].suggestion = NoSuggestion

\* LD_PRELOAD=x nohup timeout -s KILL 5 ls: the assignment reaches the safe ls
C3_Witness ==
    /\ pc = "evaluated"
    /\ CarriesDangerousAssign(commandInfos[1])
    /\ commandInfos[1].name = Str("nohup")
    /\ unwrapCommand(commandInfos[1]).name = Str("ls")
    /\ Len(commandInfos[1].args) > 3
    /\ results[1].decision = "prompt"

\* C4: a path-aware command with a non-flag argument whose resolved path
\* matches a protected glob evaluates to prompt, never to allow.
C4_ProtectedArgumentAsks ==
    pc = "evaluated" =>
        LET c == unwrapCommand(commandInfos[1]) IN
        (/\ isPathAwareCommand(c.name)
         /\ \E i \in 2..Len(c.args) :
                /\ ~StartsWith(c.args[i], <<"-">>)
                /\ \E k \in 1..Len(config.paths.protected) :
                       matchesPattern(c.args[i], config.paths.protected[k]))
        => results[1].decision = "prompt"

\* the operators the redirect check treats as writes: > >| >> &> &>>
WriteRedirOps == {54, 55, 56, 62, 63}

RECURSIVE TreeRedirs(_)
\* the redirects attached to any statement anywhere in the tree
TreeRedirs(node) ==
    LET kids == ChildNodes(node) IN
    node.Redirs \o Flatten([i \in 1..Len(kids) |-> TreeRedirs(kids[i])])

\* the path policy denies the target of the redirect for its operation
TargetDenied(r, cfg) ==
    /\ extractWordValue(r.Word) # NoWord
    /\ ~checkFilePath(extractWordValue(r.Word),
                      IF r.Op \in WriteRedirOps THEN "write" ELSE "read",
                      cfg).allowed

SomeTargetDenied(tree, cfg) ==
    \E i \in 1..Len(TreeRedirs(tree)) : TargetDenied(TreeRedirs(tree)[i], cfg)

AnyMatch(filePath, patterns) ==
    \E i \in 1..Len(patterns) : matchesPattern(filePath, patterns[i])

\* the tier of the three-tier rule that denies, "" when none does
ThreeTier(filePath, operation, cfg) ==
    IF AnyMatch(filePath, cfg.paths.protected) THEN "protected"
    ELSE IF operation \in {"write", "delete"} /\ AnyMatch(filePath, cfg.paths.read_only)
         THEN "read-only"
    ELSE IF operation = "delete" /\ AnyMatch(filePath, cfg.paths.no_delete)
         THEN "no-delete"
    ELSE ""

DeniedFor(filePath, operation, cfg) == ~checkFilePath(filePath, operation, cfg).allowed

\* C6: checkFilePath is the three-tier rule, and denial is monotone from read
\* to write to delete.
C6_ThreeTierRule ==
    pathOut # NoPathDecision =>
        /\ pathOut.allowed = (ThreeTier(pathIn.filePath, pathIn.operation, config) = "")
        /\ pathOut.tier = ThreeTier(pathIn.filePath, pathIn.operation, config)
        /\ DeniedFor(pathIn.filePath, "read", config)
              => DeniedFor(pathIn.filePath, "write", config)
        /\ DeniedFor(pathIn.filePath, "write", config)
              => DeniedFor(pathIn.filePath, "delete", config)

\* deleting a file of the read_only tier that reading would be allowed
C6_Witness ==
    /\ pathOut # NoPathDecision
    /\ pathIn.operation = "delete"
    /\ pathOut.tier = "read-only"
    /\ ~DeniedFor(pathIn.filePath, "read", config)

\* no step of the evaluator before the last one has an opinion on the invocation
Unknown(c) ==
    LET u == unwrapCommand(c)
        ctx == createEvalContext(config, commandInfos)
    IN  /\ ~CarriesDangerousAssign(u)
        /\ checkCommandFeedback(u, commandInfos) = NoSuggestion
        /\ ~(isPathAwareCommand(u.name) /\ ~checkCommandPaths(u, config).allowed)
        /\ ~IsSafeCommand(u.name, ctx)
        /\ ~HasInspector(u.name)
        /\ u.name \notin ctx.dbClients

\* C7: an invocation no step has an opinion on evaluates to pass, and the hook
\* then writes nothing to stdout and exits 0.
C7_UnknownPasses ==
    (Answered /\ results # <<>> /\ Unknown(commandInfos[Len(results)])) =>
        /\ LastResult.decision = "pass"
        /\ stdout = NoOutput
        /\ exitCode = 0

\* the pipeline holds curl or wget
HasFetcher(infos) ==
    \E k \in 1..Len(infos) : infos[k].name \in {Str("curl"), Str("wget")}

\* C8 as stated: once invocation i yields Ask, the answer is the one the hook
\* gives for the list cut after i, and nothing after i is evaluated.
C8_LaterInvocationsIrrelevant ==
    Answered =>
        \A i \in 1..Len(commandInfos) :
            IsAsk(EvalOf(i)) =>
                /\ stdout = HookOutcome(SubSeq(commandInfos, 1, i), redirects, config).stdout
                /\ Len(results) <= i

\* the first invocation whose evaluation ends the loop: Ask or an exception
EndsLoop(result) == IsAsk(result) \/ result.decision = "throw"

IsFirstEnd(i) ==
    /\ EndsLoop(EvalOf(i))
    /\ \A j \in 1..(i - 1) : ~EndsLoop(EvalOf(j))

\* C8 amended: when no redirect is denied and no guidance rule matches the
\* whole list, the hook's answer is the evaluator's result for the first
\* invocation i that ends the loop, no invocation after i is evaluated, and the
\* answer is the one for the list cut after i provided the cut keeps curl/wget
\* in or out of the pipeline.
C8_ShortCircuit ==
    (/\ Answered
     /\ DeniedRedirects(redirects, config) = {}
     /\ checkFeedbackRules(commandInfos) = NoSuggestion) =>
        /\ stdout = HookOutcome(commandInfos, redirects, config).stdout
        /\ exitCode = HookOutcome(commandInfos, redirects, config).exitCode
        /\ \A i \in 1..Len(commandInfos) :
              IsFirstEnd(i) =>
                  /\ Len(results) = i
                  /\ results[i] = EvalOf(i)
                  /\ IsAsk(EvalOf(i)) => stdout = OutputOf(EvalOf(i))
                  /\ HasFetcher(SubSeq(commandInfos, 1, i)) = HasFetcher(commandInfos)
                        => stdout = HookOutcome(SubSeq(commandInfos, 1, i),
                                                redirects, config).stdout

\* some-unknown-command --flag; constructor: the second invocation is never
\* evaluated
C8_Witness ==
    /\ Answered
    /\ payload.tree = File(<<S_unknown, S_constructor>>)
    /\ Len(commandInfos) = 2
    /\ Len(results) = 1
    /\ stdout = AskOutput

Asks == {i \in 1..Len(commandInfos) : IsAsk(EvalOf(i))}

RECURSIVE CallCount(_)
\* the call expressions of the tree that have a program word
CallCount(node) ==
    LET kids == ChildNodes(node)
        below == [i \in 1..Len(kids) |-> CallCount(kids[i])]
        Sum[i \in 0..Len(kids)] == IF i = 0 THEN 0 ELSE Sum[i - 1] + below[i]
    IN  (IF node.Type = "CallExpr" /\ Len(node.Args) > 0 THEN 1 ELSE 0)
        + Sum[Len(kids)]

\* C10: every call expression of the tree yields exactly one invocation, so
\* the list is empty only when the tree holds no call with a program word.
C10_EveryCallYieldsOneInvocation ==
    shfmt = "ok" => Len(commandInfos) = CallCount(payload.tree)

\* the arguments after the subcommand, and the positional ones among them
GitAfter(in) == IF in.call = <<>> THEN <<>> ELSE Tail(in.call)
GitPositional(in) == SelectSeq(GitAfter(in), LAMBDA a : ~StartsWith(a, <<"-">>))

ForceFlags ==
    {<<"-", "-", "force">>, <<"-", "f">>,
     <<"-", "-", "force", "-", "with", "-", "lease">>,
     <<"-", "-", "force", "-", "if", "-", "includes">>}

\* the last field of a positional argument split on ':'
LastField(a) == Split(a, ":")[Len(Split(a, ":"))]

\* the destructive git invocations
Destructive(in) ==
    /\ in.call # <<>>
    /\ LET sub == Head(in.call)
           after == GitAfter(in)
           has(set) == \E i \in 1..Len(after) : after[i] \in set
       IN  \/ sub \in Names({"reset", "clean"})
           \/ sub = Str("push") /\ has(ForceFlags)
           \/ sub \in Names({"checkout", "restore"}) /\ has({<<".">>})
           \/ sub = Str("branch")
                /\ has({<<"-", "D">>, <<"-", "d">>, <<"-", "-", "force">>})
           \/ sub = Str("stash") /\ has(Names({"drop", "clear"}))
           \/ sub \in Names({"push", "rebase"})
                /\ \E i \in 1..Len(GitPositional(in)) :
                      LastField(GitPositional(in)[i])
                          \in Names({"main", "master", "staging", "production", "prod"})
           \/ sub \notin SAFE_SUBCOMMANDS \cup BRANCH_GATED_SUBCOMMANDS

DangerousConfigKey(key) ==
    \/ key \in {<<"core", ".", "fsmonitor">>, <<"core", ".", "sshCommand">>,
                <<"core", ".", "hooksPath">>, <<"diff", ".", "external">>,
                <<"credential", ".", "helper">>}
    \/ StartsWith(key, <<"pager", ".">>)
    \/ StartsWith(key, <<"alias", ".">>)
    \/ /\ StartsWith(key, <<"filter", ".">>)
       /\ key[Len(key)] \in {"clean", "smudge"}

\* the key of a key=value argument
ConfigKey(kv) == Split(kv, "=")[1]

\* the invocation sets a dangerous key with -c / --config or with git config
SetsDangerousConfig(in) ==
    \/ \E i \in 1..(Len(in.pre) - 1) :
          /\ in.pre[i] \in {<<"-", "c">>, <<"-", "-", "config">>}
          /\ DangerousConfigKey(ConfigKey(in.pre[i + 1]))
    \/ /\ in.call # <<>>
       /\ Head(in.call) = Str("config")
       /\ \E i \in 1..Len(GitPositional(in)) :
             DangerousConfigKey(GitPositional(in)[i])

\* C12: isGitCommandSafe is false for every git invocation that sets a
\* dangerous configuration key, given as -c key=value or --config key=value
\* before the subcommand or as a positional argument of git config.
C12_DangerousConfigNeverSafe ==
    (Returned("isGitCommandSafe") /\ SetsDangerousConfig(callIn)) => callOut = FALSE

\* what the user's config.toml adds: nothing when it is missing or malformed
UserAdds(file) == IF file.state = "ok" THEN file.user ELSE NoUser

\* the branches protected under the user's config.toml: built-in plus added
EffectiveBranches(file) ==
    PROTECTED_BRANCHES \cup SeqToSet(UserAdds(file).git.protected_branches)

\* the evaluated invocation is a git push or rebase onto branch b
TargetsBranch(c, b) ==
    LET u == unwrapCommand(c)
        g == parseGitCommand(Tail(u.args))
    IN  /\ u.name = Str("git")
        /\ g.subcommand \in Names({"push", "rebase"})
        /\ \E i \in 1..Len(g.rest) : LastField(g.rest[i]) = b

ReachesDbStep(c) ==
    LET u == unwrapCommand(c)
        ctx == createEvalContext(config, commandInfos)
    IN  /\ ~CarriesDangerousAssign(u)
        /\ checkCommandFeedback(u, commandInfos) = NoSuggestion
        /\ ~(isPathAwareCommand(u.name) /\ ~checkCommandPaths(u, config).allowed)
        /\ ~IsSafeCommand(u.name, ctx)
        /\ ~HasInspector(u.name)
        /\ u.name \in ctx.dbClients

\* the flags that hand SQL to a client on its command line
InlineSqlFlags ==
    {<<"-", "c">>, <<"-", "-", "command">>, <<"-", "e">>, <<"-", "-", "execute">>}

\* every SQL string on the command line: the value after such a flag, the
\* value of its --flag=value form
InlineSql(args) ==
    {args[i + 1] : i \in {j \in 1..(Len(args) - 1) : args[j] \in InlineSqlFlags}}
    \cup {Slice(args[x[1]], Len(x[2]) + 1) :
            x \in {y \in (1..Len(args)) \X InlineSqlFlags :
                      StartsWith(args[y[1]], y[2] \o <<"=">>)}}

\* C14: an invocation of a DB client that reaches the DB step is allowed only
\* if SQL is given on the command line and all of it is read-only; otherwise
\* the evaluator asks.
C14_DbClientAllowsOnlyReadOnly ==
    (pc = "evaluated" /\ ReachesDbStep(commandInfos[1])) =>
        LET sqls == InlineSql(unwrapCommand(commandInfos[1]).args)
        IN  IF sqls # {} /\ \A q \in sqls : isSqlReadOnly(q)
            THEN results[1].decision \in {"allow", "prompt"}
            ELSE results[1].decision = "prompt"

\* the call classified a string of SQL statements, not a meta-command
ClassifiedSql == Returned("isSqlReadOnly") /\ callIn.sql \notin MetaCommands

\* C15: isSqlReadOnly is true only if every top-level statement is a select,
\* with, show or values; a statement of another kind at any position, or text
\* that does not parse, makes the string not read-only.
C15_ReadOnlyOnlyIfEveryStatementIs ==
    ClassifiedSql =>
        (callOut = TRUE =>
            \A i \in 1..Len(callIn.stmts) :
                callIn.stmts[i].kind \in {"select", "with", "show", "values"})

\* SELECT 1; DROP TABLE t; SELECT 1 is not read-only
C15_Witness ==
    /\ ClassifiedSql
    /\ Len(callIn.stmts) = 3
    /\ callIn.stmts[1].kind = "select"
    /\ callIn.stmts[2].kind = "drop"
    /\ callIn.stmts[3].kind = "select"
    /\ callOut = FALSE

\* the word that follows the leading character of a meta-command
CommandWord(m) == IF Len(m) >= 2 THEN m[2] ELSE ""

\* C17: a string with a leading backslash is read-only iff its command word is
\* in the psql allowlist; one with a leading '.' iff its command word is in the
\* sqlite allowlist; one with a leading PRAGMA iff it holds no '='; the
\* commands that write files or run programs are never read-only.
C17_MetaCommands ==
    (Returned("isSqlReadOnly") /\ callIn.sql \in MetaCommands) =>
        LET m == callIn.sql IN
        /\ m[1] = "\\" =>
              /\ callOut = (CommandWord(m) \in SAFE_PSQL_META_COMMANDS)
              /\ CommandWord(m) \in {"!", "copy", "i", "o", "w"} => callOut = FALSE
        /\ m[1] = "." =>
              /\ callOut = isSqliteDotCommandSafe(m)
              /\ CommandWord(m) \in {"import", "restore", "open", "output", "save",
                                     "backup", "read", "system", "shell"}
                    => callOut = FALSE
        /\ Lower(m[1]) = "pragma" => callOut = isSqlitePragmaReadOnly(m)

\* the program names that need an inspector, the SQL classification or
\* unwrapping
MustBeInspected ==
    Names({"git", "xargs", "source", "find", "sed", "awk", "kill", "chmod",
           "docker", "node", "python", "python3"})
    \cup Names({"psql", "mysql", "sqlite3"})
    \cup Names({"nohup", "nice", "timeout"})

\* C16: no name that needs inspection is in the always-safe set, and an
\* invocation of such a name that no earlier step stops is never allowed by
\* the safelist step: a sqlite3 invocation with SQL that is not read-only asks.
C16_InspectedNeverSafelisted ==
    pc = "evaluated" =>
        LET u == unwrapCommand(commandInfos[1])
            ctx == createEvalContext(config, commandInfos)
        IN  /\ Names(SAFE_COMMANDS) \cap MustBeInspected = {}
            /\ u.name \in MustBeInspected => ~IsSafeCommand(u.name, ctx)
            /\ (/\ u.name = Str("sqlite3")
                /\ ~CarriesDangerousAssign(u)
                /\ Len(u.args) = 3
                /\ ~isSqlReadOnly(u.args[3]))
                   => results[1].decision = "prompt"

-----------------------------------------------------------------------------
(* The find and xargs inspectors, called on their own *)

\* the context the inspector was called with
CallCtx == createEvalContext(config, <<InspectedCmd(callIn)>>)

Ask(result) == result.decision \in {"prompt", "feedback"}

\* -delete or -ok among find's own arguments
OwnDestructive(items) ==
    \E i \in 1..Len(items) :
        /\ items[i].kind = "own"
        /\ items[i].args[1] \in {<<"-", "delete">>, <<"-", "ok">>}

\* every -exec / -execdir clause is non-empty and its sub-command is allowed
ClausesAllowed(items, ctx) ==
    \A i \in 1..Len(items) :
        items[i].kind = "exec" =>
            /\ items[i].sub # <<>>
            /\ evaluateBashCommand(SubCmd(items[i].sub), ctx).decision = "allow"

\* C18: the find inspector answers Ask whenever -delete or -ok is among
\* find's own arguments, whatever the other arguments and -exec clauses are,
\* and answers Allow only if every -exec / -execdir clause is non-empty and
\* its sub-command is allowed by the evaluator.
C18_FindInspector ==
    (Returned("inspector") /\ callIn.tool = "find") =>
        /\ OwnDestructive(callIn.items) => Ask(callOut)
        /\ callOut.decision = "allow" =>
              /\ ~OwnDestructive(callIn.items)
              /\ ClausesAllowed(callIn.items, CallCtx)

\* C19: the xargs inspector answers what the evaluator answers for the
\* sub-invocation that starts after xargs' own flags and the values of the
\* two-argument flags, whatever that answer is, and Allow when there is no
\* sub-command; xargs rm -rf is Ask.
C19_XargsDelegates ==
    (Returned("inspector") /\ callIn.tool = "xargs") =>
        /\ callIn.sub # <<>> =>
              callOut = evaluateBashCommand(SubCmd(callIn.sub), CallCtx)
        /\ callIn.sub = <<>> => callOut.decision = "allow"
        /\ callIn.sub = <<Str("rm"), <<"-", "rf">>>> => callOut.decision = "prompt"

\* guidance for the sub-command of an xargs with a two-argument flag
C19_Witness ==
    /\ Returned("inspector")
    /\ callIn.tool = "xargs"
    /\ callIn.flags = <<<<"-", "a">>, Str("file")>>
    /\ callIn.sub = <<Python3, FlagC, JsonCode>>
    /\ callOut.decision = "feedback"

-----------------------------------------------------------------------------
(* unwrapCommand, called on its own *)

\* the argument of the call
UnwrapArg == Wrapped(callIn.wraps, callIn.inner, callIn.assigns)

\* C20: wrappers around an inner invocation c unwrap to c with the assigns
\* carried through, nohup in front changes nothing, unwrapping twice is
\* unwrapping once, and a wrapper that wraps nothing is returned unchanged.
C20_UnwrapRoundTrip ==
    Returned("unwrapCommand") =>
        LET n == Len(callIn.wraps) IN
        /\ callIn.inner # <<>> =>
              callOut = [name    |-> callIn.inner[1],
                         args    |-> callIn.inner,
                         assigns |-> callIn.assigns]
        /\ (n >= 1 /\ callIn.wraps[1] = <<Str("nohup")>>
                /\ (n >= 2 \/ callIn.inner # <<>>)) =>
              callOut = unwrapCommand(Wrapped(Tail(callIn.wraps), callIn.inner,
                                              callIn.assigns))
        /\ unwrapCommand(callOut) = callOut
        /\ (n = 1 /\ callIn.inner = <<>>) => callOut = UnwrapArg
        /\ (n >= 1 /\ callIn.inner = <<>>) =>
              callOut = [name    |-> callIn.wraps[n][1],
                         args    |-> callIn.wraps[n],
                         assigns |-> callIn.assigns]

\* nice and timeout with their flags around rm -rf x that carries assigns
C20_Witness ==
    /\ Returned("unwrapCommand")
    /\ callIn.wraps = <<<<Str("nice"), <<"-", "n">>, <<"1", "0">>>>,
                        <<Str("timeout"), <<"-", "s">>, Str("KILL"), <<"3", "0">>>>>>
    /\ callIn.inner = <<Str("rm"), <<"-", "rf">>, Str("x")>>
    /\ callIn.assigns # <<>>
    /\ callOut.name = Str("rm")
    /\ callOut.assigns = callIn.assigns

-----------------------------------------------------------------------------
(* The kill inspector, called on its own *)

RECURSIVE ValueOfS(_, _)
\* args[i] is the SIG of a -s SIG pair
ValueOfS(args, i) ==
    i >= 3 /\ args[i - 1] = <<"-", "s">> /\ ~ValueOfS(args, i - 1)

SFlag(args, i) == args[i] = <<"-", "s">> /\ ~ValueOfS(args, i)

\* -NUM or -SIG
SignalShaped(arg) ==
    /\ Len(arg) >= 2
    /\ arg[1] = "-"
    /\ \/ \A k \in 2..Len(arg) : arg[k] \in Digits
       \/ arg \in {<<"-", "TERM">>, <<"-", "KILL">>, <<"-", "HUP">>}

\* args[i] is the first -SIG / -NUM argument, no -s SIG standing before it
FirstSignal(args, i) ==
    /\ ~ValueOfS(args, i)
    /\ SignalShaped(args[i])
    /\ \A j \in 2..(i - 1) :
          ValueOfS(args, j) \/ (~SFlag(args, j) /\ ~SignalShaped(args[j]))

\* what is left when the signal specification is set aside
PidOperands(args) ==
    {i \in 2..Len(args) :
        ~SFlag(args, i) /\ ~ValueOfS(args, i) /\ ~FirstSignal(args, i)}

\* C21: with the signal specification set aside (-s SIG, or the first
\* -SIG / -NUM argument), the kill inspector answers Ask if a remaining
\* argument is 1 or -1 and Allow otherwise.
C21_KillDangerousPid ==
    (Returned("inspector") /\ callIn.tool = "kill") =>
        LET dangerous == \E i \in PidOperands(callIn.args) :
                             callIn.args[i] \in {Str("1"), <<"-", "1">>}
        IN  /\ dangerous => callOut.decision = "prompt"
            /\ ~dangerous => callOut.decision = "allow"

\* kill -9 -1: the signal is set aside and -1 is a PID
C21_Witness ==
    /\ Returned("inspector")
    /\ callIn.tool = "kill"
    /\ callIn.args = <<Str("kill"), <<"-", "9">>, <<"-", "1">>>>
    /\ callOut.decision = "prompt"

-----------------------------------------------------------------------------
(* The chmod inspector, called on its own *)

InSeq(x, seq) == \E i \in 1..Len(seq) : seq[i] = x

\* the mode sets setuid, setgid or the sticky bit
SetsSpecialBit(m) ==
    IF m.kind = "numeric"
    THEN Len(m.text) = 4 /\ m.text[1] # "0"
    ELSE /\ m.op \in {"+", "="}
         /\ \/ InSeq("t", m.perms)
            \/ InSeq("s", m.perms) /\ (m.who = <<>> \/ \E w \in {"u", "g", "a"} : InSeq(w, m.who))

\* the mode grants write permission to others
GrantsWriteToOthers(m) ==
    IF m.kind = "numeric"
    THEN m.text[Len(m.text)] \in {"2", "3", "6", "7"}
    ELSE /\ m.op \in {"+", "="}
         /\ InSeq("w", m.perms)
         /\ (InSeq("o", m.who) \/ InSeq("a", m.who))

\* C22: the chmod inspector answers Ask for every mode that sets a special
\* bit or grants write permission to others, numeric or symbolic, and Allow
\* for a mode that does neither.
C22_ChmodModes ==
    (Returned("inspector") /\ callIn.tool = "chmod") =>
        IF SetsSpecialBit(callIn.mode) \/ GrantsWriteToOthers(callIn.mode)
        THEN callOut.decision = "prompt"
        ELSE callOut.decision = "allow"

-----------------------------------------------------------------------------
(* Write and Edit *)

\* a Protected or ReadOnly glob of the loaded configuration matches the path
WriteDenied(filePath, cfg) ==
    \/ \E i \in 1..Len(cfg.paths.protected) :
           matchesPattern(filePath, cfg.paths.protected[i])
    \/ \E i \in 1..Len(cfg.paths.read_only) :
           matchesPattern(filePath, cfg.paths.read_only[i])

\* C23: for Write and Edit the verdict is Ask iff the path policy denies the
\* write on tool_input.file_path and Allow otherwise, Allow when file_path is
\* absent, whatever else the payload holds; shfmt is not run and no command
\* is evaluated.
C23_WriteEditByPathOnly ==
    (pc = "exited" /\ payload.json /\ payload.tool_name \in {"Write", "Edit"}) =>
        /\ stdout.permissionDecision =
              IF /\ payload.file_path # <<>>
                 /\ WriteDenied(payload.file_path, loadConfig(userFile))
              THEN "ask" ELSE "allow"
        /\ exitCode = 0
        /\ shfmt = "idle"
        /\ commandInfos = <<>>
        /\ redirects = <<>>
        /\ results = <<>>

\* an Edit of a read-only file, with a command in the payload as well
C23_Witness ==
    /\ pc = "exited"
    /\ payload.tool_name = "Edit"
    /\ payload.command = "text"
    /\ payload.file_path = <<"ro", "/", "data", ".", "txt">>
    /\ userFile.state = "ok"
    /\ stdout.permissionDecision = "ask"

-----------------------------------------------------------------------------
(* Malformed input *)

\* the payload is not JSON, or tool_name is missing, or it is a Bash payload
\* without a command
MalformedInput ==
    \/ ~payload.json
    \/ payload.tool_name = ""
    \/ payload.tool_name = "Bash" /\ payload.command = ""

-----------------------------------------------------------------------------
(* The audit log *)

\* C25: with audit logging enabled, the decision the hook emits is recorded
\* as exactly one line of the audit file, and the verdict is written without
\* waiting for the append.
C25_DecisionRecorded ==
    (callIn.fn = "log" /\ callIn.host = "hook" /\ pc = "exited") =>
        /\ stdout # NoOutput
        /\ auditFile.lines = Append(callIn.prev.lines, 1)

\* the lines of the file after the previous content
NewLines == SubSeq(auditFile.lines, Len(callIn.prev.lines) + 1, Len(auditFile.lines))

\* C26: when the appends of k log() calls in a row have all finished, the
\* file holds the previous content followed by exactly k new lines, one per
\* call, and the directory was created before the first write.
C26_NoEntryLost ==
    (callIn.fn = "log" /\ callIn.host = "test") =>
        /\ AllWritten =>
              /\ Len(auditFile.lines) = Len(callIn.prev.lines) + callIn.k
              /\ SubSeq(auditFile.lines, 1, Len(callIn.prev.lines)) = callIn.prev.lines
              /\ \A c \in 1..callIn.k : \E i \in 1..Len(NewLines) : NewLines[i] = c
        /\ \A w \in 1..Len(writers) :
              writers[w].pc \in {"exists", "read", "write", "done"} => auditDir

-----------------------------------------------------------------------------
(* The docker inspector, called on its own *)

\* C27: for docker run and docker exec the inspector answers Ask if one of
\* the options is --privileged, --pid=host, --net=host, --network=host or a
\* -v / --volume whose value starts with /:/, whichever of several volume
\* options it is, and Allow when none is; bare docker is Allow and an unknown
\* subcommand is Ask.
C27_DockerRiskyOptions ==
    (Returned("inspector") /\ callIn.tool = "docker") =>
        /\ callIn.sub \in {"run", "exec"} =>
              IF \E i \in 1..Len(callIn.opts) : callIn.opts[i].risky
              THEN callOut.decision = "prompt"
              ELSE callOut.decision = "allow"
        /\ callIn.sub = "" => callOut.decision = "allow"
        /\ callIn.sub \in {"swarm", "push"} => callOut.decision = "prompt"

-----------------------------------------------------------------------------
(* checkFeedbackRules, called on its own *)

SomeJson(items) == \E i \in 1..Len(items) : items[i].json

SomeStringOp(items) == \E i \in 1..Len(items) : items[i].strop

\* C28: checkFeedbackRules returns the jq suggestion whenever the inline code
\* of some invocation of the list holds a JSON keyword, wherever it stands;
\* the sed/awk/tr/cut suggestion only if no inline code holds a JSON keyword
\* and some inline code holds a string-operation keyword; nothing otherwise.
C28_JsonRuleFirst ==
    Returned("checkFeedbackRules") =>
        /\ SomeJson(callIn.items) => callOut.rule = "json"
        /\ (~SomeJson(callIn.items) /\ SomeStringOp(callIn.items)) =>
              callOut.rule = "string-op"
        /\ (~SomeJson(callIn.items) /\ ~SomeStringOp(callIn.items)) =>
              callOut = NoSuggestion

\* string-operation code stands before JSON code and the jq suggestion is returned
C28_Witness ==
    /\ Returned("checkFeedbackRules")
    /\ Len(callIn.items) = 3
    /\ callIn.items[1].strop /\ ~callIn.items[1].json
    /\ callIn.items[3].json
    /\ callOut.rule = "json"

-----------------------------------------------------------------------------
(* The names invocations are evaluated under *)

\* the -exec / -execdir clauses of a find invocation that have a sub-command
ExecClauses(args) ==
    {i \in 0..(Len(args) - 1) :
        /\ At(args, i) \in {<<"-", "exec">>, <<"-", "execdir">>}
        /\ ExecArgs(args, i) # <<>>}

RECURSIVE Examined(_)
\* the invocations the evaluator works on for one invocation of the list:
\* what unwrapping gives, and the sub-invocations xargs and find build
Examined(rawCmdInfo) ==
    LET c == unwrapCommand(rawCmdInfo)
        subs == IF c.name = Str("xargs") /\ XargsSubStart(c.args, 1) # Null
                THEN {SubCmd(Slice(c.args, XargsSubStart(c.args, 1)))}
                ELSE IF c.name = Str("find")
                THEN {SubCmd(ExecArgs(c.args, i)) : i \in ExecClauses(c.args)}
                ELSE {}
    IN  {c} \cup UNION {Examined(x) : x \in subs}

\* C29: every invocation the evaluator examines has a name without a
\* directory part, the basename of its program word, and args[0] equal to it.
C29_NameIsBasename ==
    pc = "evaluated" =>
        \A c \in Examined(commandInfos[1]) :
            /\ ~Includes(c.name, "/")
            /\ c.args[1] = c.name

-----------------------------------------------------------------------------
(* Termination of the evaluation *)

\* the sub-invocations the inspector of an unwrapped invocation evaluates
SubInvocations(c) ==
    IF c.name = Str("xargs") /\ XargsSubStart(c.args, 1) # Null
    THEN {SubCmd(Slice(c.args, XargsSubStart(c.args, 1)))}
    ELSE IF c.name = Str("find")
    THEN {SubCmd(ExecArgs(c.args, i)) : i \in ExecClauses(c.args)}
    ELSE {}

RECURSIVE Shrinks(_)
\* every recursive step from this invocation on is applied to a strictly
\* shorter argument list
Shrinks(rawCmdInfo) ==
    LET c == unwrapCommand(rawCmdInfo) IN
    /\ c # rawCmdInfo => Len(c.args) < Len(rawCmdInfo.args)
    /\ \A x \in SubInvocations(c) : Len(x.args) < Len(c.args) /\ Shrinks(x)

MaxOf(set) == IF set = {} THEN 0 ELSE CHOOSE n \in set : \A m \in set : m <= n

RECURSIVE Depth(_)
\* the number of recursive steps on the longest chain
Depth(rawCmdInfo) ==
    LET c == unwrapCommand(rawCmdInfo) IN
    (IF c # rawCmdInfo THEN 1 ELSE 0)
    + (IF SubInvocations(c) = {} THEN 0
       ELSE 1 + MaxOf({Depth(x) : x \in SubInvocations(c)}))

\* C30: the evaluation of an invocation ends with a decision; every
\* recursive step (unwrapping, xargs' sub-command, each -exec clause of find)
\* is applied to a strictly shorter argument list and the depth of the
\* recursion is at most the number of arguments.
C30_EvaluationTerminates ==
    pc = "evaluated" =>
        /\ results[1].decision \in {"allow", "prompt", "feedback"}
        /\ Shrinks(commandInfos[1])
        /\ Depth(commandInfos[1]) <= Len(commandInfos[1].args)

====
